---- MODULE Spec2Model ----
(***************************************************************************)
(* github-recap: the data-collection pipeline (Batched Collector, Commit   *)
(* Fetcher, Repository Lister, Cache Store) as a state machine.            *)
(*                                                                         *)
(* One run of collectAllCommits is cut at its suspension points: every     *)
(* action is the code that runs between two awaits.  The remote API and    *)
(* the file system are the environment: the status a request is answered   *)
(* with and the success of a file write are chosen nondeterministically.   *)
(***************************************************************************)
EXTENDS Integers, Sequences, FiniteSets, TLC

(***************************************************************************)
(* Bounds of the model.                                                    *)
(***************************************************************************)
MaxRepos == 7          \* repositories of the account, specification Spec
MaxReposCache == 2     \* repositories of the account, specification SpecCache
MaxRuns == 2           \* runs of the tool in a row, specification SpecCache
MaxTicks == 2          \* clock steps between runs, specification SpecCache
MaxPages == 2          \* full pages of the repository listing, specification SpecLister
MaxYears == 2          \* years with a cache entry, specification SpecStore
MaxMessages == 3        \* commits handed to the Message Analyzer, specification SpecWords
MaxShuffled == 3        \* commits handed to the statistics in every order, specification SpecShuffle
MaxCommits == 4        \* commits handed to a statistic, specification SpecStats

(***************************************************************************)
(* Program constants.                                                      *)
(***************************************************************************)
MsPerHour == 3600000       \* 1000 * 60 * 60
DefaultBatchSize == 5      \* options.batchSize || 5
PerPage == 100             \* per_page: 100
HoursPerDay == 24          \* 1000 * 60 * 60 * 24 milliseconds, in hours
DefaultLimit == 5          \* getTopRepositories(commits, limit = 5)
DefaultWordLimit == 10     \* getTopWords(commits, limit = 10)

NULL == "null"

Min(a, b) == IF a < b THEN a ELSE b

\* Array.prototype.slice(a, b) on a 0-based array; a negative index counts
\* from the end of the array.
Slice(s, a, b) ==
    LET index(k) == IF k < 0 THEN (IF Len(s) + k < 0 THEN 0 ELSE Len(s) + k)
                    ELSE Min(k, Len(s))
    IN SubSeq(s, index(a) + 1, index(b))

RECURSIVE Flatten(_)
\* allCommitsArray.push(...commits) for every element of a list of lists.
Flatten(ss) == IF ss = <<>> THEN <<>> ELSE Head(ss) \o Flatten(Tail(ss))

(***************************************************************************)
(* The remote account.  Repository i has the full name i; every second     *)
(* repository is private; repository i holds i % 3 commits in the year.    *)
(***************************************************************************)
Repo(i) == [full_name |-> i, private |-> (i % 2 = 0)]

Account(n) == [i \in 1..n |-> Repo(i)]

\* The commits the API lists for a repository, already reduced to
\* {sha, repo} (message and date play no part in the collector).
SimplifiedCommits(repoFullName) ==
    [k \in 1..(repoFullName % 3) |-> [sha |-> k, repo |-> repoFullName]]

\* What a commit listing is answered with: an HTTP status, or 0 for an error
\* that carries no status (a network failure); 500 stands for every status
\* the fetcher has no special case for.
FetchStatuses == {0, 200, 401, 403, 404, 409, 429, 500}

\* A repository name without the owner/name shape (no "/").
MalformedName == 0

\* HTTP statuses the repository listing is answered with.
ListStatuses == {200, 401, 403, 404, 500}

(***************************************************************************)
(* Cache Store.  The cache directory is a function from file names to file *)
(* contents; a file is either JSON text of a cache entry or corrupt text.  *)
(***************************************************************************)
getCacheKey(username, year) == "github-data-" \o username \o "-" \o ToString(year)

getCachePath(username, year) == getCacheKey(username, year) \o ".json"

CorruptFile ==
    [kind |-> "corrupt", username |-> NULL, year |-> 0, fetchedAt |-> 0,
     repos |-> <<>>, commits |-> <<>>]

\* JSON.stringify of {username, year, fetchedAt, repos, commits}.
JsonFile(username, year, fetchedAt, repos, commits) ==
    [kind |-> "json", username |-> username, year |-> year,
     fetchedAt |-> fetchedAt, repos |-> repos, commits |-> commits]

\* The empty cache directory.
EmptyDir == [p \in {} |-> CorruptFile]

\* The last successful cache write of a fresh run: when, and which commits.
NoWrite == [at |-> 0, commits |-> <<>>]

existsSync(files, path) == path \in DOMAIN files

\* isCacheValid with an entry of exactly maxAgeHours still valid (<=).
isCacheValidInclusive(files, username, year, maxAgeHours, dateNow) ==
    LET cachePath == getCachePath(username, year) IN
    IF ~existsSync(files, cachePath) THEN [valid |-> FALSE, age |-> -1]
    ELSE LET cacheData == files[cachePath] IN
         IF cacheData.kind # "json" THEN [valid |-> FALSE, age |-> -1]
         ELSE IF cacheData.fetchedAt = 0 THEN [valid |-> FALSE, age |-> -1]
         ELSE LET ageMs == dateNow - cacheData.fetchedAt IN
              [valid |-> ageMs <= maxAgeHours * MsPerHour, age |-> ageMs]

\* isCacheValid: {valid, age}.  age is kept in milliseconds (the code divides
\* it by MsPerHour into fractional hours); -1 stands for age: null.
isCacheValid(files, username, year, maxAgeHours, dateNow) ==
    LET cachePath == getCachePath(username, year) IN
    IF ~existsSync(files, cachePath) THEN [valid |-> FALSE, age |-> -1]
    ELSE LET cacheData == files[cachePath] IN
         IF cacheData.kind # "json" THEN [valid |-> FALSE, age |-> -1]
         ELSE IF cacheData.fetchedAt = 0 THEN [valid |-> FALSE, age |-> -1]
         ELSE LET ageMs == dateNow - cacheData.fetchedAt IN
              [valid |-> ageMs < maxAgeHours * MsPerHour, age |-> ageMs]

\* What loadFromCache returns when there is nothing to return.
NoData == [found |-> FALSE, repos |-> <<>>, commits |-> <<>>]

\* loadFromCache answering a missing or unparseable file with an empty
\* result instead of null.
loadFromCacheNeverNull(files, username, year, unlinkOk) ==
    LET cachePath == getCachePath(username, year) IN
    IF existsSync(files, cachePath) /\ files[cachePath].kind = "json"
    THEN [data |-> [found |-> TRUE, repos |-> files[cachePath].repos,
                    commits |-> files[cachePath].commits],
          files |-> files]
    ELSE [data |-> [found |-> TRUE, repos |-> <<>>, commits |-> <<>>],
          files |-> files]

\* loadFromCache: the value returned and the cache directory afterwards.
\* unlinkOk: whether fs.unlink of a corrupt file succeeds (its failure is
\* ignored by the code).
loadFromCache(files, username, year, unlinkOk) ==
    LET cachePath == getCachePath(username, year) IN
    IF ~existsSync(files, cachePath) THEN [data |-> NoData, files |-> files]
    ELSE LET cacheData == files[cachePath] IN
         IF cacheData.kind = "json"
         THEN [data |-> [found |-> TRUE, repos |-> cacheData.repos,
                         commits |-> cacheData.commits],
               files |-> files]
         ELSE [data |-> NoData,
               files |-> IF unlinkOk
                         THEN [p \in DOMAIN files \ {cachePath} |-> files[p]]
                         ELSE files]

\* data.key || [] for data = {repos, commits}: a missing property reads as
\* undefined.
OrEmpty(data, key) == IF key \in DOMAIN data THEN data[key] ELSE <<>>

\* JSON.parse(JSON.stringify(array)) for an array of flat objects: a Date
\* object is written as its ISO string (Date.prototype.toJSON) and read back
\* as a string; strings, numbers and booleans come back as they were.
JSONstringify(array) ==
    [k \in 1..Len(array) |->
        IF "date" \in DOMAIN array[k]
        THEN [array[k] EXCEPT !.date = [type |-> "string", iso |-> array[k].date.iso]]
        ELSE array[k]]

\* saveToCache with fetchedAt stored in seconds instead of milliseconds.
saveToCacheSeconds(files, username, year, data, dateNow, writeOk) ==
    LET cachePath == getCachePath(username, year) IN
    IF writeOk
    THEN [threw |-> FALSE,
          files |-> [p \in DOMAIN files \cup {cachePath} |->
                        IF p = cachePath
                        THEN JsonFile(username, year, dateNow \div 1000,
                                      JSONstringify(OrEmpty(data, "repos")),
                                      JSONstringify(OrEmpty(data, "commits")))
                        ELSE files[p]]]
    ELSE [threw |-> TRUE, files |-> files]

\* saveToCache with the repositories left out of the entry written.
saveToCacheNoRepos(files, username, year, data, dateNow, writeOk) ==
    LET cachePath == getCachePath(username, year) IN
    IF writeOk
    THEN [threw |-> FALSE,
          files |-> [p \in DOMAIN files \cup {cachePath} |->
                        IF p = cachePath
                        THEN JsonFile(username, year, dateNow, <<>>,
                                      JSONstringify(OrEmpty(data, "commits")))
                        ELSE files[p]]]
    ELSE [threw |-> TRUE, files |-> files]

\* saveToCache: whether it threw, and the cache directory afterwards.
\* writeOk: whether fs.mkdir and fs.writeFile succeed.
saveToCache(files, username, year, data, dateNow, writeOk) ==
    LET cachePath == getCachePath(username, year) IN
    IF writeOk
    THEN [threw |-> FALSE,
          files |-> [p \in DOMAIN files \cup {cachePath} |->
                        IF p = cachePath
                        THEN JsonFile(username, year, dateNow,
                                      JSONstringify(OrEmpty(data, "repos")),
                                      JSONstringify(OrEmpty(data, "commits")))
                        ELSE files[p]]]
    ELSE [threw |-> TRUE, files |-> files]

\* String.prototype.startsWith
startsWith(file, prefix) ==
    Len(prefix) <= Len(file) /\ SubSeq(file, 1, Len(prefix)) = prefix

RECURSIVE readdirLoop(_, _)
readdirLoop(names, listed) ==
    IF names = {} THEN listed
    ELSE LET file == CHOOSE f \in names : TRUE
         IN readdirLoop(names \ {file}, Append(listed, file))

\* fs.readdir: the names of the files of the cache directory, in some order.
readdir(files) == readdirLoop(DOMAIN files, <<>>)

\* The unlink loops of clearCache over the files to delete.  failAt = 0: all
\* succeed; failAt = k: the k-th fs.unlink (for k = Len(targets) + 1, the
\* fs.rmdir that follows) rejects, and clearCache throws.
UnlinkLoop(files, targets, failAt) ==
    LET done == IF failAt = 0 THEN Len(targets) ELSE failAt - 1
        gone == {targets[k] : k \in 1..done}
    IN [threw |-> failAt # 0,
        deletedFiles |-> IF failAt = 0 THEN targets ELSE <<>>,
        files |-> [p \in DOMAIN files \ gone |-> files[p]]]

\* clearCache whose single-entry branch deletes without recording the path.
clearCacheUnreported(files, username, year, failAt) ==
    IF username = NULL /\ year = 0
    THEN UnlinkLoop(files, readdir(files), failAt)
    ELSE IF year = 0
    THEN LET prefix == "github-data-" \o username \o "-"
         IN UnlinkLoop(files, SelectSeq(readdir(files),
                                        LAMBDA file : startsWith(file, prefix)),
                       failAt)
    ELSE LET cachePath == getCachePath(username, year)
             cleared == UnlinkLoop(files,
                                   IF existsSync(files, cachePath)
                                   THEN <<cachePath>> ELSE <<>>,
                                   failAt)
         IN [cleared EXCEPT !.deletedFiles = <<>>]

\* clearCache(username, year), year 0 standing for null: every file of the
\* directory, or the files whose name starts with the principal's prefix, or
\* the one file of (username, year); returns the paths deleted.  A cache
\* directory that does not exist is the empty directory.
clearCache(files, username, year, failAt) ==
    IF username = NULL /\ year = 0
    THEN UnlinkLoop(files, readdir(files), failAt)
    ELSE IF year = 0
    THEN LET prefix == "github-data-" \o username \o "-"
         IN UnlinkLoop(files, SelectSeq(readdir(files),
                                        LAMBDA file : startsWith(file, prefix)),
                       failAt)
    ELSE LET cachePath == getCachePath(username, year)
         IN UnlinkLoop(files,
                       IF existsSync(files, cachePath) THEN <<cachePath>> ELSE <<>>,
                       failAt)

\* The number of file-system calls of clearCache that can reject.
clearCacheSteps(files, username, year) ==
    IF username = NULL /\ year = 0
    THEN (IF DOMAIN files = {} THEN 0 ELSE Cardinality(DOMAIN files) + 1)
    ELSE Len(clearCache(files, username, year, 0).deletedFiles)

(***************************************************************************)
(* Repository Lister and Commit Fetcher.  A call's result is a record:     *)
(* threw (with error) or returned (with value); warned records a           *)
(* console.warn / console.error on the side channel.                       *)
(***************************************************************************)
Returned(value, warned) ==
    [threw |-> FALSE, value |-> value, warned |-> warned, error |-> "none"]

Thrown(error, warned) ==
    [threw |-> TRUE, value |-> <<>>, warned |-> warned, error |-> error]

\* GET /user/repos?per_page=..&page=..: one page of the listing, and whether
\* the response's Link header names a next page.
listForAuthenticatedUser(remote, per_page, page) ==
    [data |-> Slice(remote, (page - 1) * per_page, page * per_page),
     next |-> page * per_page < Len(remote)]

\* A single request in place of octokit.paginate: the first page only.
paginateFirstPage(remote, per_page) ==
    listForAuthenticatedUser(remote, per_page, 1).data

RECURSIVE PaginateLoop(_, _, _, _)
PaginateLoop(remote, per_page, page, collected) ==
    LET response == listForAuthenticatedUser(remote, per_page, page)
    IN IF response.next
       THEN PaginateLoop(remote, per_page, page + 1, collected \o response.data)
       ELSE collected \o response.data

\* octokit.paginate(listForAuthenticatedUser, {per_page}): requests page
\* after page while the response links a next one, and returns all pages
\* combined into one array.
paginate(remote, per_page) == PaginateLoop(remote, per_page, 1, <<>>)

\* fetchAllRepos with the visibility filter skipped when an exclusion list
\* is given: the second filter starts from allRepos, not from filteredRepos.
fetchAllReposExcludeOnly(remote, publicOnly, excludeRepos, status) ==
    IF status = 200
    THEN LET allRepos == paginate(remote, PerPage)
             visible == IF publicOnly /\ Len(excludeRepos) = 0
                        THEN SelectSeq(allRepos, LAMBDA repo : ~repo.private)
                        ELSE allRepos
             filteredRepos ==
                 IF Len(excludeRepos) > 0
                 THEN SelectSeq(visible, LAMBDA repo :
                          \A k \in 1..Len(excludeRepos) : excludeRepos[k] # repo.full_name)
                 ELSE visible
         IN Returned(filteredRepos, FALSE)
    ELSE Thrown("FetchReposFailed", FALSE)

\* fetchAllRepos: the full listing, all pages of it, filtered by visibility,
\* then by exact exclusion on full_name; any API failure is thrown as a new
\* Error.
fetchAllRepos(remote, publicOnly, excludeRepos, status) ==
    IF status = 200
    THEN LET allRepos == paginate(remote, PerPage)
             visible == IF publicOnly
                        THEN SelectSeq(allRepos, LAMBDA repo : ~repo.private)
                        ELSE allRepos
             filteredRepos ==
                 IF Len(excludeRepos) > 0
                 THEN SelectSeq(visible, LAMBDA repo :
                          \A k \in 1..Len(excludeRepos) : excludeRepos[k] # repo.full_name)
                 ELSE visible
         IN Returned(filteredRepos, FALSE)
    ELSE IF status = 401 THEN Thrown("AuthenticationFailed", FALSE)
    ELSE IF status = 403 THEN Thrown("AccessForbidden", FALSE)
    ELSE IF status = 404 THEN Thrown("UserNotFound", FALSE)
    ELSE Thrown("FetchReposFailed", FALSE)

\* fetchCommitsForRepo with 403 escalated the way fetchAllRepos escalates it.
fetchCommitsForbiddenFatal(repoFullName, status) ==
    IF repoFullName = MalformedName THEN Thrown("InvalidRepositoryName", FALSE)
    ELSE IF status = 200 THEN Returned(SimplifiedCommits(repoFullName), FALSE)
    ELSE IF status = 404 \/ status = 409 THEN Returned(<<>>, FALSE)
    ELSE IF status = 403 THEN Thrown("AccessForbidden", FALSE)
    ELSE IF status = 429 THEN Thrown("RateLimitExceeded", FALSE)
    ELSE Returned(<<>>, TRUE)

\* fetchCommitsForRepo: the try block returns the simplified commits; the
\* catch block classifies the API error by its status.
fetchCommitsForRepo(repoFullName, status) ==
    IF repoFullName = MalformedName THEN Thrown("InvalidRepositoryName", FALSE)
    ELSE IF status = 200 THEN Returned(SimplifiedCommits(repoFullName), FALSE)
    ELSE IF status = 404 \/ status = 409 \/ status = 403 THEN Returned(<<>>, FALSE)
    ELSE IF status = 429 THEN Thrown("RateLimitExceeded", FALSE)
    ELSE Returned(<<>>, TRUE)

\* The .catch() the collector chains on every fetch of a batch: a rejection
\* becomes a warning and an empty contribution.
CatchFetch(result) ==
    IF result.threw THEN Returned(<<>>, TRUE) ELSE result

\* The results of a batch collected in the order in which the fetches settle.
ResultsByCompletion(promises, results, j, value) ==
    LET settled == Cardinality({k \in DOMAIN promises : promises[k] # "pending"})
    IN [results EXCEPT ![settled + 1] = value]

\* The array Promise.all fulfils with: the value of the j-th promise at
\* index j, whenever that promise settles.
PromiseAllResults(promises, results, j, value) == [results EXCEPT ![j] = value]

\* Promise.any in place of Promise.all: fulfilled with the first fulfilment.
PromiseAny(promises) ==
    IF \E j \in DOMAIN promises : promises[j] = "fulfilled" THEN "fulfilled"
    ELSE IF \A j \in DOMAIN promises : promises[j] = "rejected" THEN "rejected"
    ELSE "pending"

\* Promise.all over the promises of a batch: rejected as soon as one is
\* rejected, fulfilled once all are fulfilled.
PromiseAll(promises) ==
    IF \E j \in DOMAIN promises : promises[j] = "rejected" THEN "rejected"
    ELSE IF \A j \in DOMAIN promises : promises[j] = "fulfilled" THEN "fulfilled"
    ELSE "pending"

(***************************************************************************)
(* Statistics Engine.  A commit's date is the local-time reading of its    *)
(* ISO timestamp, {month, day, minute} of the year 2024; a date key        *)
(* 'yyyy-MM-dd' is the pair <<month, day>>.  Times are in hours.           *)
(***************************************************************************)
MonthDays == <<31, 29, 31, 30, 31, 30, 31, 31, 30, 31, 30, 31>>

RECURSIVE DaysBefore(_)
\* The days of 2024 before the first of a month.
DaysBefore(month) ==
    IF month = 1 THEN 0 ELSE DaysBefore(month - 1) + MonthDays[month - 1]

\* The number of a calendar day within the year (1 for January 1).
DayNumber(dateKey) == DaysBefore(dateKey[1]) + dateKey[2]

\* String comparison of two 'yyyy-MM-dd' keys of the same year.
KeyLess(a, b) == a[1] < b[1] \/ (a[1] = b[1] /\ a[2] < b[2])

\* format(startOfDay(parseISO(commit.date)), 'yyyy-MM-dd')
DateKey(commit) == <<commit.date.month, commit.date.day>>

\* The time zones the process may run in: one without daylight saving, and
\* one whose clocks go forward on March 10 and back on November 3, 2024.
Timezones == {"UTC", "America/New_York"}

\* Hours by which local midnight of a day is behind UTC midnight.
MidnightOffset(dateKey, tz) ==
    IF tz = "UTC" THEN 0
    ELSE IF KeyLess(<<3, 10>>, dateKey) /\ ~KeyLess(<<11, 3>>, dateKey) THEN 4
    ELSE 5

\* parseISO(dateKey).getTime(): local midnight of the day, as hours since the
\* UTC midnight before January 1.
getTime(dateKey, tz) ==
    (DayNumber(dateKey) - 1) * HoursPerDay + MidnightOffset(dateKey, tz)

RECURSIVE keysLoop(_, _)
keysLoop(names, keys) ==
    IF names = <<>> THEN keys
    ELSE keysLoop(Tail(names),
                  IF \E k \in 1..Len(keys) : keys[k] = Head(names) THEN keys
                  ELSE Append(keys, Head(names)))

\* The keys of a Set or of a counting object filled in the order of names:
\* each name once, in the order of first appearance (the iteration order of
\* a Set and of Object.entries).
ObjectKeys(names) == keysLoop(names, <<>>)

RECURSIVE sortLoop(_, _)
sortLoop(keys, sorted) ==
    IF keys = <<>> THEN sorted
    ELSE LET least == CHOOSE i \in 1..Len(keys) :
                         \A j \in 1..Len(keys) : i = j \/ KeyLess(keys[i], keys[j])
         IN sortLoop(SubSeq(keys, 1, least - 1) \o SubSeq(keys, least + 1, Len(keys)),
                     Append(sorted, keys[least]))

\* Array.from(uniqueDates) without .sort(): the dates in insertion order.
SortedDatesInsertionOrder(uniqueDates) == uniqueDates

\* Array.from(uniqueDates).sort()
SortedDates(uniqueDates) == sortLoop(uniqueDates, <<>>)

NoDate == <<0, 0>>

\* return null
NoStreak == [isNull |-> TRUE, days |-> 0, startDate |-> NoDate, endDate |-> NoDate]

RECURSIVE StreakLoop(_, _, _, _)
\* The for loop of calculateLongestStreak from index i (0-based) on; v holds
\* longestStreak, currentStreak, streakStart, longestStreakStart and
\* longestStreakEnd.
StreakLoop(sortedDates, tz, i, v) ==
    IF i >= Len(sortedDates) THEN v
    ELSE LET currentDate == getTime(sortedDates[i + 1], tz)
             previousDate == getTime(sortedDates[i], tz)
             consecutive == currentDate - previousDate = HoursPerDay
             extended == v.currentStreak + 1
         IN StreakLoop(sortedDates, tz, i + 1,
                IF consecutive
                THEN IF extended > v.longestStreak
                     THEN [v EXCEPT !.currentStreak = extended,
                                    !.longestStreak = extended,
                                    !.longestStreakStart = v.streakStart,
                                    !.longestStreakEnd = sortedDates[i + 1]]
                     ELSE [v EXCEPT !.currentStreak = extended]
                ELSE [v EXCEPT !.currentStreak = 1,
                               !.streakStart = sortedDates[i + 1]])

\* calculateLongestStreak(commits) in time zone tz: {days, startDate, endDate}
\* or null.
calculateLongestStreak(commits, tz) ==
    IF Len(commits) = 0 THEN NoStreak
    ELSE LET uniqueDates == ObjectKeys([k \in 1..Len(commits) |-> DateKey(commits[k])])
             sortedDates == SortedDates(uniqueDates)
         IN IF Len(sortedDates) = 1
            THEN [isNull |-> FALSE, days |-> 1,
                  startDate |-> sortedDates[1], endDate |-> sortedDates[1]]
            ELSE LET v == StreakLoop(sortedDates, tz, 1,
                                     [longestStreak |-> 1, currentStreak |-> 1,
                                      streakStart |-> sortedDates[1],
                                      longestStreakStart |-> sortedDates[1],
                                      longestStreakEnd |-> sortedDates[1]])
                 IN [isNull |-> FALSE, days |-> v.longestStreak,
                     startDate |-> v.longestStreakStart,
                     endDate |-> v.longestStreakEnd]

\* calculateTotalCommits(commits)
calculateTotalCommits(commits) == Len(commits)

\* getDay(parseISO(commit.date)): 0 = Sunday .. 6 = Saturday; January 1,
\* 2024 is a Monday.
getDay(dateKey) == DayNumber(dateKey) % 7

dayNames ==
    <<"Sunday", "Monday", "Tuesday", "Wednesday", "Thursday", "Friday", "Saturday">>

orderedDays ==
    <<"Monday", "Tuesday", "Wednesday", "Thursday", "Friday", "Saturday", "Sunday">>

\* getCommitsByDayOfWeek: [] for no commits; otherwise {day, count} for the
\* seven days, Monday first.
getCommitsByDayOfWeek(commits) ==
    IF Len(commits) = 0 THEN <<>>
    ELSE [k \in 1..Len(orderedDays) |->
            [day |-> orderedDays[k],
             count |-> Cardinality({i \in 1..Len(commits) :
                          dayNames[getDay(DateKey(commits[i])) + 1] = orderedDays[k]})]]

\* How often a name occurs: counts[name] after the counting loop.
CountOf(names, name) == Cardinality({i \in 1..Len(names) : names[i] = name})

RECURSIVE sortByCountLoop(_, _, _)
\* A stable sort: of the entries left, the first one that no other precedes.
sortByCountLoop(entries, sorted, sign) ==
    IF entries = <<>> THEN sorted
    ELSE LET before(a, b) == sign * (b.count - a.count) < 0
             first == CHOOSE i \in 1..Len(entries) :
                         /\ \A j \in 1..Len(entries) : ~before(entries[j], entries[i])
                         /\ \A j \in 1..(i - 1) : before(entries[i], entries[j])
         IN sortByCountLoop(SubSeq(entries, 1, first - 1)
                                \o SubSeq(entries, first + 1, Len(entries)),
                            Append(sorted, entries[first]), sign)

\* .sort((a, b) => a.count - b.count): ascending instead of descending.
sortByCountAscending(entries) ==
    sortByCountLoop(entries, <<>>, -1)

\* .sort((a, b) => b.count - a.count): descending by count; Array.prototype
\* .sort is stable, so entries of equal count keep their order.
sortByCount(entries) ==
    sortByCountLoop(entries, <<>>, 1)

\* Math.round(x * 10) / 10 for x = (count / total) * 100, kept in tenths.
RoundedPercentage(count, total) == (2 * count * 1000 + total) \div (2 * total)

\* getTopRepositories(commits, limit): {repo, count, percentage} of the
\* limit repositories with the most commits.
getTopRepositories(commits, limit) ==
    IF Len(commits) = 0 THEN <<>>
    ELSE LET names == [k \in 1..Len(commits) |-> commits[k].repo]
             keys == ObjectKeys(names)
             repos == [k \in 1..Len(keys) |->
                          [repo |-> keys[k], count |-> CountOf(names, keys[k]),
                           percentage |-> RoundedPercentage(CountOf(names, keys[k]),
                                                            Len(commits))]]
         IN Slice(sortByCount(repos), 0, limit)

(***************************************************************************)
(* Message Analyzer.  A message is a string; its characters are its        *)
(* substrings of length one.                                               *)
(***************************************************************************)
LowerCase == "abcdefghijklmnopqrstuvwxyz"
UpperCase == "ABCDEFGHIJKLMNOPQRSTUVWXYZ"
Digits == "0123456789"

Chars(s) == {SubSeq(s, i, i) : i \in 1..Len(s)}

CharAt(s, i) == SubSeq(s, i, i)

\* \s of a regular expression, for the characters a message of the model has.
Whitespace == {" "}

\* \w of a regular expression: [A-Za-z0-9_].
WordChars == Chars(LowerCase) \cup Chars(UpperCase) \cup Chars(Digits) \cup {"_"}

RECURSIVE toLowerCase(_)
\* String.prototype.toLowerCase
toLowerCase(s) ==
    IF Len(s) = 0 THEN ""
    ELSE LET c == CharAt(s, 1)
             lower == IF c \in Chars(UpperCase)
                      THEN CharAt(LowerCase, CHOOSE i \in 1..Len(UpperCase) :
                                                 CharAt(UpperCase, i) = c)
                      ELSE c
         IN lower \o toLowerCase(SubSeq(s, 2, Len(s)))

RECURSIVE replacePunctuation(_)
\* .replace(/[^\w\s]/g, ' ')
replacePunctuation(s) ==
    IF Len(s) = 0 THEN ""
    ELSE LET c == CharAt(s, 1)
         IN (IF c \in WordChars \cup Whitespace THEN c ELSE " ")
                \o replacePunctuation(SubSeq(s, 2, Len(s)))

RECURSIVE trim(_)
\* String.prototype.trim
trim(s) ==
    IF Len(s) = 0 THEN ""
    ELSE IF CharAt(s, 1) \in Whitespace THEN trim(SubSeq(s, 2, Len(s)))
    ELSE IF CharAt(s, Len(s)) \in Whitespace THEN trim(SubSeq(s, 1, Len(s) - 1))
    ELSE s

RECURSIVE splitLoop(_, _, _, _)
\* The pieces of s between the separators, the empty ones included; a run
\* of separators counts as one when runs is TRUE (/\s+/).
splitLoop(s, separators, runs, piece) ==
    IF Len(s) = 0 THEN <<piece>>
    ELSE IF CharAt(s, 1) \in separators
    THEN IF runs /\ Len(s) > 1 /\ CharAt(s, 2) \in separators
         THEN splitLoop(SubSeq(s, 2, Len(s)), separators, runs, piece)
         ELSE <<piece>> \o splitLoop(SubSeq(s, 2, Len(s)), separators, runs, "")
    ELSE splitLoop(SubSeq(s, 2, Len(s)), separators, runs, piece \o CharAt(s, 1))

\* String.prototype.split on /\s+/
splitWhitespace(s) == splitLoop(s, Whitespace, TRUE, "")

STOPWORDS ==
    {"the", "a", "an", "and", "or", "but", "in", "on", "at", "to", "for", "of",
     "with", "by", "from", "as", "is", "was", "are", "were", "be", "been",
     "being", "have", "has", "had", "do", "does", "did", "will", "would",
     "should", "could", "may", "might", "can", "this", "that", "these",
     "those", "i", "you", "he", "she", "it", "we", "they"}

\* /^v?\d+\.\d+(\.\d+)?$/.test(word)
isVersionNumber(word) ==
    LET rest == IF Len(word) > 0 /\ CharAt(word, 1) = "v"
                THEN SubSeq(word, 2, Len(word)) ELSE word
        groups == splitLoop(rest, {"."}, FALSE, "")
    IN /\ Len(groups) \in {2, 3}
       /\ \A k \in 1..Len(groups) :
            Len(groups[k]) > 0 /\ Chars(groups[k]) \subseteq Chars(Digits)

\* extractWords(message): the words of the message in lower case, with
\* punctuation replaced by spaces.
extractWords(message) ==
    LET cleaned == trim(replacePunctuation(toLowerCase(message)))
    IN SelectSeq(splitWhitespace(cleaned), LAMBDA word : Len(word) > 0)

RECURSIVE NumberOf(_)
\* The number a string of digits denotes.
NumberOf(key) ==
    IF Len(key) = 0 THEN 0
    ELSE NumberOf(SubSeq(key, 1, Len(key) - 1)) * 10
             + ((CHOOSE i \in 1..Len(Digits) : CharAt(Digits, i) = CharAt(key, Len(key))) - 1)

\* A property key that is an array index: a canonical numeric string.
isIndexKey(key) ==
    /\ Len(key) > 0
    /\ Chars(key) \subseteq Chars(Digits)
    /\ Len(key) = 1 \/ CharAt(key, 1) # "0"

RECURSIVE indexKeysLoop(_, _)
indexKeysLoop(keys, sorted) ==
    IF keys = <<>> THEN sorted
    ELSE LET least == CHOOSE i \in 1..Len(keys) :
                         \A j \in 1..Len(keys) : NumberOf(keys[i]) <= NumberOf(keys[j])
         IN indexKeysLoop(SubSeq(keys, 1, least - 1) \o SubSeq(keys, least + 1, Len(keys)),
                          Append(sorted, keys[least]))

\* Object.entries(counts) for counts filled in the order of words: the index
\* keys in ascending numeric order, then the other keys in insertion order.
WordEntries(words) ==
    LET keys == ObjectKeys(words)
        ordered == indexKeysLoop(SelectSeq(keys, isIndexKey), <<>>)
                       \o SelectSeq(keys, LAMBDA key : ~isIndexKey(key))
    IN [k \in 1..Len(ordered) |->
           [word |-> ordered[k], count |-> CountOf(words, ordered[k])]]

\* getTopWords(commits, limit): {word, count} of the limit most frequent
\* words of the messages.
getTopWords(commits, limit) ==
    IF Len(commits) = 0 THEN <<>>
    ELSE LET words == Flatten([k \in 1..Len(commits) |-> extractWords(commits[k].message)])
             counted == SelectSeq(words,
                            LAMBDA word : /\ word \notin STOPWORDS
                                          /\ Len(word) >= 3
                                          /\ ~isVersionNumber(word))
         IN Slice(sortByCount(WordEntries(counted)), 0, limit)

\* Reading a property of undefined.
TypeError == [threw |-> TRUE, error |-> "TypeError"]

\* msg.length > 80 ? msg.substring(0, 77) + '...' : msg
Shortened(msg) == IF Len(msg) > 80 THEN SubSeq(msg, 1, 77) \o "..." ELSE msg

RECURSIVE messageLoop(_, _, _)
\* The forEach of getCommitMessageStats from commit i (1-based) on; v holds
\* totalWords, shortestMsg, longestMsg and the first words counted so far.
messageLoop(commits, i, v) ==
    IF i > Len(commits) THEN v
    ELSE LET message == trim(commits[i].message)
             words == extractWords(message)
             firstWord == words[1]
         IN messageLoop(commits, i + 1,
                [totalWords |-> v.totalWords + Len(words),
                 shortestMsg |-> IF Len(message) < Len(v.shortestMsg)
                                 THEN message ELSE v.shortestMsg,
                 longestMsg |-> IF Len(message) > Len(v.longestMsg)
                                THEN message ELSE v.longestMsg,
                 firstWords |-> IF /\ Len(words) > 0
                                   /\ firstWord \notin STOPWORDS
                                   /\ Len(firstWord) >= 3
                                THEN Append(v.firstWords, firstWord)
                                ELSE v.firstWords])

\* The body of getCommitMessageStats after its test for an empty list;
\* commits[0].message of an empty list is a TypeError.
messageStatsOf(commits) ==
    IF Len(commits) = 0 THEN TypeError
    ELSE LET v == messageLoop(commits, 1,
                      [totalWords |-> 0, shortestMsg |-> commits[1].message,
                       longestMsg |-> commits[1].message, firstWords |-> <<>>])
         IN [avgLength |-> (2 * v.totalWords * 10 + Len(commits)) \div (2 * Len(commits)),
             shortestMsg |-> Shortened(v.shortestMsg),
             longestMsg |-> Shortened(v.longestMsg),
             topFirstWords |-> Slice(sortByCount(WordEntries(v.firstWords)), 0, 5)]

\* getCommitMessageStats without its test for an empty list.
getCommitMessageStatsUnguarded(commits) == messageStatsOf(commits)

\* getCommitMessageStats(commits): {avgLength, shortestMsg, longestMsg,
\* topFirstWords}; avgLength is in tenths of a word.
getCommitMessageStats(commits) ==
    IF Len(commits) = 0
    THEN [avgLength |-> 0, shortestMsg |-> NULL, longestMsg |-> NULL,
          topFirstWords |-> <<>>]
    ELSE messageStatsOf(commits)

(***************************************************************************)
(* The command line's --repo.  Repository i of the account of bob has the  *)
(* name r<i> and the full name bob/r<i>.                                   *)
(***************************************************************************)
nameOf(repo) == "r" \o ToString(repo.full_name)

fullNameOf(repo) == "bob/" \o nameOf(repo)

\* String.prototype.includes
includes(string, searchString) ==
    \E i \in 1..(Len(string) - Len(searchString) + 1) :
        SubSeq(string, i, i + Len(searchString) - 1) = searchString

\* null, where a repository is expected.
NoRepository == [full_name |-> 0, private |-> FALSE]

\* { match: null, matches: [] }
NoMatch == [match |-> NoRepository, matches |-> <<>>]

\* findRepository(allRepos, searchPattern): the exact full name, else the
\* one exact name, else the one partial match; { match, matches }.
findRepository(allRepos, searchPattern) ==
    LET exactFullNameMatches ==
            SelectSeq(allRepos, LAMBDA repo : fullNameOf(repo) = searchPattern)
        exactNameMatches ==
            SelectSeq(allRepos, LAMBDA repo : nameOf(repo) = searchPattern)
        partialMatches ==
            SelectSeq(allRepos, LAMBDA repo :
                \/ includes(fullNameOf(repo), searchPattern)
                \/ includes(nameOf(repo), searchPattern))
    IN IF Len(exactFullNameMatches) > 0
       THEN [match |-> exactFullNameMatches[1], matches |-> <<exactFullNameMatches[1]>>]
       ELSE IF Len(exactNameMatches) = 1
       THEN [match |-> exactNameMatches[1], matches |-> exactNameMatches]
       ELSE IF Len(exactNameMatches) > 1
       THEN [match |-> NoRepository, matches |-> exactNameMatches]
       ELSE IF Len(partialMatches) = 1
       THEN [match |-> partialMatches[1], matches |-> partialMatches]
       ELSE IF Len(partialMatches) > 1
       THEN [match |-> NoRepository, matches |-> partialMatches]
       ELSE NoMatch

(***************************************************************************)
(* Batched Collector.                                                      *)
(***************************************************************************)
BATCH_SIZE(options) ==
    IF options.batchSize = 0 THEN DefaultBatchSize ELSE options.batchSize

RECURSIVE BatchLoopWide(_, _, _, _)
BatchLoopWide(repos, size, i, batches) ==
    IF i < Len(repos)
    THEN BatchLoopWide(repos, size, i + size + 1,
                       Append(batches, Slice(repos, i, i + size + 1)))
    ELSE batches

\* The batch loop with an off-by-one chunk: slice(i, i + BATCH_SIZE + 1).
BatchesWide(repos, size) == BatchLoopWide(repos, size, 0, <<>>)

\* The chunk with one repository too many: repos.slice(i, i + BATCH_SIZE + 1).
NextBatchWide(repos, size, i) == Slice(repos, i, i + size + 1)

\* repos.slice(i, i + BATCH_SIZE)
NextBatch(repos, size, i) == Slice(repos, i, i + size)

RECURSIVE BatchLoop(_, _, _, _)
BatchLoop(repos, size, i, batches) ==
    IF i < Len(repos)
    THEN BatchLoop(repos, size, i + size, Append(batches, NextBatch(repos, size, i)))
    ELSE batches

\* for (let i = 0; i < repos.length; i += BATCH_SIZE) batches.push(slice)
Batches(repos, size) == BatchLoop(repos, size, 0, <<>>)

NoOptions ==
    [year |-> 0, publicOnly |-> FALSE, excludeRepos |-> <<>>,
     repoList |-> [given |-> FALSE, list |-> <<>>], noCache |-> FALSE,
     cacheMaxAge |-> 0, batchSize |-> 0, username |-> NULL]

NoOutcome == [kind |-> "none", commits |-> <<>>, error |-> "none"]

\* The locals of a collectAllCommits call, and what the call has done so far
\* (listerCalls, listerError, fetchCalls, fetched, outOfOrder, failed,
\* fatalSeen, cacheWrites, saveThrew, files0, filesAtLoad, startedAt,
\* prevWrite).
NoRun ==
    [pc |-> "idle", options |-> NoOptions,
     cacheCheck |-> [consulted |-> FALSE, valid |-> FALSE, age |-> -1],
     mounted |-> FALSE, repos |-> <<>>, batches |-> <<>>, batchIndex |-> 0,
     promises |-> <<>>, batchResults |-> <<>>, inFlight |-> {},
     allCommitsArray |-> <<>>,
     state |-> [processedCount |-> 0, totalCount |-> 0, allCommits |-> 0],
     outcome |-> NoOutcome,
     listerCalls |-> 0, listerError |-> "none", fetchCalls |-> 0,
     fetched |-> <<>>, outOfOrder |-> FALSE, failed |-> {}, fatalSeen |-> {},
     cacheWrites |-> 0, saveThrew |-> FALSE, files0 |-> EmptyDir,
     filesAtLoad |-> EmptyDir, startedAt |-> 0,
     prevWrite |-> NoWrite]

\* return commits
Return(r, commits) ==
    [r EXCEPT !.pc = "done", !.mounted = FALSE,
              !.outcome = [kind |-> "returned", commits |-> commits, error |-> "none"]]

\* catch (error) { unmount(); throw error }
Throw(r, error) ==
    [r EXCEPT !.pc = "done", !.mounted = FALSE,
              !.outcome = [kind |-> "threw", commits |-> <<>>, error |-> error]]

\* The fetches of a batch with its first repository left out.
IssuedFetchesButFirst(batch) ==
    [j \in 1..(Len(batch) - 1) |-> batch[j + 1].full_name]

\* batch.map((repo) => fetchCommitsForRepo(repo.full_name, year)...): the
\* repositories a fetch is issued for, in the order of the batch.
IssuedFetches(batch) == [j \in 1..Len(batch) |-> batch[j].full_name]

\* FanOut with the progress counter set to batchStart, one repository ahead.
FanOutCountsAhead(r, batchIndex) ==
    LET size == BATCH_SIZE(r.options)
        batch == r.batches[batchIndex + 1]
        batchStart == batchIndex * size + 1
        issued == IssuedFetches(batch)
    IN [r EXCEPT !.pc = "await", !.batchIndex = batchIndex,
                 !.state.processedCount = batchStart,
                 !.promises = [j \in 1..Len(issued) |-> "pending"],
                 !.batchResults = [j \in 1..Len(issued) |-> <<>>],
                 !.inFlight = r.inFlight \cup {<<batchIndex, j>> : j \in 1..Len(issued)},
                 !.fetchCalls = r.fetchCalls + Len(issued),
                 !.fetched = r.fetched \o issued]

\* One iteration of the batch loop up to its await: the progress state is
\* set and every repository of batch batchIndex (0-based) gets its fetch.
FanOut(r, batchIndex) ==
    LET size == BATCH_SIZE(r.options)
        batch == r.batches[batchIndex + 1]
        batchStart == batchIndex * size + 1
        issued == IssuedFetches(batch)
    IN [r EXCEPT !.pc = "await", !.batchIndex = batchIndex,
                 !.state.processedCount = batchStart - 1,
                 !.promises = [j \in 1..Len(issued) |-> "pending"],
                 !.batchResults = [j \in 1..Len(issued) |-> <<>>],
                 !.inFlight = r.inFlight \cup {<<batchIndex, j>> : j \in 1..Len(issued)},
                 !.fetchCalls = r.fetchCalls + Len(issued),
                 !.fetched = r.fetched \o issued]

\* From the resolved repository set to the first await of the batch loop.
ProcessRepos(r, repos) ==
    LET r1 == [r EXCEPT !.repos = repos,
                        !.state = [processedCount |-> 0, totalCount |-> Len(repos),
                                   allCommits |-> 0]]
    IN IF Len(repos) = 0 THEN Return(r1, <<>>)
       ELSE FanOut([r1 EXCEPT !.batches = Batches(repos, BATCH_SIZE(r.options))], 0)

\* AfterList with a failed listing treated as an empty one.
AfterListSwallow(r, listed) ==
    IF listed.threw
    THEN ProcessRepos([r EXCEPT !.listerError = listed.error], <<>>)
    ELSE ProcessRepos(r, listed.value)

\* After await fetchAllRepos: a rejection goes to the catch block, which
\* unmounts the spinner and rethrows; a listing goes on to the batch loop.
AfterList(r, listed) ==
    IF listed.threw
    THEN Throw([r EXCEPT !.listerError = listed.error], listed.error)
    ELSE ProcessRepos(r, listed.value)

\* Cache invalid or bypassed: render the spinner and resolve the repository
\* set, from the explicit list or by awaiting the Repository Lister.
EnterFresh(r) ==
    LET r1 == [r EXCEPT !.mounted = TRUE] IN
    IF r.options.repoList.given /\ Len(r.options.repoList.list) > 0
    THEN ProcessRepos(r1, r.options.repoList.list)
    ELSE [r1 EXCEPT !.pc = "listing", !.listerCalls = r.listerCalls + 1]

\* The cache condition with the noCache flag read the wrong way round.
ConsultsCacheInverted(options) ==
    options.username # NULL /\ options.noCache /\ ~options.repoList.given

\* The cache consulted only by a run without filters.
ConsultsCacheUnfiltered(options) ==
    /\ options.username # NULL /\ ~options.noCache /\ ~options.repoList.given
    /\ ~options.publicOnly /\ options.excludeRepos = <<>>

\* if (currentUsername && !noCache && !repoList)
ConsultsCache(options) ==
    options.username # NULL /\ ~options.noCache /\ ~options.repoList.given

\* Entry of collectAllCommits up to its first await.
StartRun(options, files, dateNow, prevWrite) ==
    LET r == [NoRun EXCEPT !.options = options, !.files0 = files,
                           !.startedAt = dateNow, !.prevWrite = prevWrite]
    IN IF ConsultsCache(options)
       THEN LET cacheCheck == isCacheValid(files, options.username, options.year,
                                           options.cacheMaxAge, dateNow)
            IN IF cacheCheck.valid
               THEN [r EXCEPT !.pc = "load",
                              !.cacheCheck = [consulted |-> TRUE, valid |-> TRUE,
                                              age |-> cacheCheck.age]]
               ELSE EnterFresh([r EXCEPT !.cacheCheck =
                                   [consulted |-> TRUE, valid |-> FALSE,
                                    age |-> cacheCheck.age]])
       ELSE EnterFresh(r)

\* The condition of the cache write without its repoList test.
SavesCacheWithList(options) == options.username # NULL

\* if (currentUsername && !repoList) before the cache write
SavesCache(options) == options.username # NULL /\ ~options.repoList.given

\* AfterBatch with the batch assigned to the result instead of pushed onto it.
AfterBatchOverwrite(r) ==
    LET size == BATCH_SIZE(r.options)
        batch == r.batches[r.batchIndex + 1]
        batchStart == r.batchIndex * size + 1
        batchEnd == Min(batchStart + Len(batch) - 1, Len(r.repos))
        merged == Flatten(r.batchResults)
        r1 == [r EXCEPT !.allCommitsArray = merged,
                        !.state.processedCount = batchEnd,
                        !.state.allCommits = Len(merged)]
    IN IF r.batchIndex + 1 < Len(r.batches) THEN FanOut(r1, r.batchIndex + 1)
       ELSE IF SavesCache(r.options) THEN [r1 EXCEPT !.pc = "saving"]
       ELSE Return(r1, merged)

\* AfterBatch with the cache write inside the batch loop: the write is started
\* after the first batch that resolves.
AfterBatchSaveInLoop(r) ==
    LET size == BATCH_SIZE(r.options)
        batch == r.batches[r.batchIndex + 1]
        batchStart == r.batchIndex * size + 1
        batchEnd == Min(batchStart + Len(batch) - 1, Len(r.repos))
        merged == r.allCommitsArray \o Flatten(r.batchResults)
        r1 == [r EXCEPT !.allCommitsArray = merged,
                        !.state.processedCount = batchEnd,
                        !.state.allCommits = Len(merged)]
    IN IF SavesCache(r.options) THEN [r1 EXCEPT !.pc = "saving"]
       ELSE IF r.batchIndex + 1 < Len(r.batches) THEN FanOut(r1, r.batchIndex + 1)
       ELSE Return(r1, merged)

\* After Promise.all of the current batch: merge the batch, then either fan
\* out the next batch, start the cache write, or return.
AfterBatch(r) ==
    LET size == BATCH_SIZE(r.options)
        batch == r.batches[r.batchIndex + 1]
        batchStart == r.batchIndex * size + 1
        batchEnd == Min(batchStart + Len(batch) - 1, Len(r.repos))
        merged == r.allCommitsArray \o Flatten(r.batchResults)
        r1 == [r EXCEPT !.allCommitsArray = merged,
                        !.state.processedCount = batchEnd,
                        !.state.allCommits = Len(merged)]
    IN IF r.batchIndex + 1 < Len(r.batches) THEN FanOut(r1, r.batchIndex + 1)
       ELSE IF SavesCache(r.options) THEN [r1 EXCEPT !.pc = "saving"]
       ELSE Return(r1, merged)

\* AfterSave without the try/catch around the cache write.
AfterSaveUncaught(r, saved) ==
    IF saved.threw
    THEN Throw([r EXCEPT !.saveThrew = TRUE], "CacheWriteFailed")
    ELSE Return([r EXCEPT !.cacheWrites = @ + 1], r.allCommitsArray)

\* After await saveToCache: a rejection is caught and dropped; either way the
\* spinner is unmounted and the collected commits are returned.
AfterSave(r, saved) ==
    Return([r EXCEPT !.cacheWrites = IF saved.threw THEN @ ELSE @ + 1,
                     !.saveThrew = saved.threw],
           r.allCommitsArray)

(***************************************************************************)
(* State.                                                                  *)
(*   now       Date.now(), in milliseconds                                 *)
(*   ticks     clock steps taken so far                                    *)
(*   runsDone  runs of the tool that have exited                           *)
(*   account   the repositories of the authenticated principal             *)
(*   files     the cache directory                                         *)
(*   lastWrite the last successful cache write                             *)
(*   run       the collectAllCommits call in progress                      *)
(*   fetcher   one direct call of fetchCommitsForRepo (SpecFetch)          *)
(*   lister    one direct call of fetchAllRepos (SpecLister)               *)
(*   store     direct calls of the Cache Store's functions (SpecStore)     *)
(*   stats     one direct call of a statistic (SpecStats)                  *)
(*   analyzer  one direct call of the Message Analyzer (SpecWords)         *)
(*   main      the invocation of the tool in progress (SpecMain)           *)
(*   partition the batch partitioning loop, step by step (SpecPartition)   *)
(*   screen    the mounted RecapScreen component (SpecScreen)              *)
(***************************************************************************)
VARIABLES now, ticks, runsDone, account, files, lastWrite, run, fetcher, lister,
          store, stats, analyzer, main, partition, screen

vars == <<now, ticks, runsDone, account, files, lastWrite, run, fetcher, lister,
          store, stats, analyzer, main, partition, screen>>

\* The variables of the specifications that call one function directly, and
\* the caller of collectAllCommits.
direct == <<fetcher, lister, store, stats, analyzer, main, partition, screen>>

NoCall == [pc |-> "idle", repoFullName |-> 0, status |-> 0,
           result |-> Returned(<<>>, FALSE)]

EmptyCollection == [repos |-> <<>>, commits |-> <<>>]

NoStoreCall == [pc |-> "idle", op |-> "none", username |-> NULL, year |-> 0,
                data |-> EmptyCollection, before |-> EmptyDir, result |-> [threw |-> FALSE]]

\* A call of the statistics on a commit list, before it has returned.
StatsCallOf(pc, commits, tz, limit) ==
    [pc |-> pc, commits |-> commits, tz |-> tz, limit |-> limit, total |-> 0,
     streak |-> NoStreak, byWeekday |-> <<>>, topRepos |-> <<>>]

NoStatsCall == StatsCallOf("idle", <<>>, "UTC", 0)

\* The value of a result that is not assigned yet.
Unassigned == <<[word |-> "", count |-> 0]>>

AnalyzerCallOf(pc, commits, limit) ==
    [pc |-> pc, commits |-> commits, limit |-> limit, topWords |-> Unassigned,
     messageStats |-> [avgLength |-> 0, shortestMsg |-> NULL, longestMsg |-> NULL,
                       topFirstWords |-> Unassigned]]

NoAnalyzerCall == AnalyzerCallOf("idle", <<>>, 0)

\* The parsed command line: --repo, --public-only, --exclude and
\* --no-cache or --refresh.
NoCli == [repo |-> NULL, publicOnly |-> FALSE, exclude |-> <<>>, noCache |-> FALSE]

\* The locals of main: the options, the result of findRepository, repos,
\* the commits collected, and the listings main itself has requested;
\* earlier holds the options of the invocations before this one.
NoMain ==
    [pc |-> "idle", cli |-> NoCli, resolved |-> FALSE, found |-> NoMatch,
     repos |-> <<>>, commits |-> <<>>, listerCalls |-> 0, error |-> "none",
     earlier |-> <<>>]

\* The locals of the batch partitioning loop: repos, options.batchSize, the
\* loop counter i and batches.
NoPartition == [pc |-> "idle", repos |-> <<>>, batchSize |-> 0, i |-> 0, batches |-> <<>>]

\* const totalScreens = 8
totalScreens == 8

\* useState(5): the seconds a screen is shown before it advances.
CountdownStart == 5

\* The RecapScreen component before it is rendered.  currentScreen, dots and
\* countdown are its state; closure is the currentScreen of the render whose
\* effects ran last, which is what the subscribed input handler and the
\* running intervals see (-1: no effect has run yet).
NoScreen ==
    [pc |-> "idle", noAnimation |-> FALSE, currentScreen |-> 0, dots |-> "",
     countdown |-> CountdownStart, closure |-> 0 - 1]

\* The passive effects of the last committed render run: the dots and
\* countdown intervals are cleared and set again when currentScreen changed,
\* restarting the countdown, and useInput subscribes the handler of that
\* render.
RunEffects(s) ==
    IF s.closure = s.currentScreen THEN s
    ELSE [s EXCEPT !.closure = s.currentScreen,
                   !.countdown = IF s.noAnimation \/ s.currentScreen = totalScreens - 1
                                 THEN @ ELSE CountdownStart]

NoListerCall == [pc |-> "idle", publicOnly |-> FALSE, excludeRepos |-> <<>>,
                 status |-> 0, result |-> Returned(<<>>, FALSE)]

Now0 == 48 * MsPerHour

\* A cache entry left by an earlier run of the tool, ageMs old.
OldCommits == <<[sha |-> 7, repo |-> 1]>>

OldEntry(ageMs) == JsonFile("bob", 2024, Now0 - ageMs, <<Repo(1)>>, OldCommits)

DirWith(file) == [p \in {getCachePath("bob", 2024)} |-> file]

\* The options index.js passes: --repo gives a one-element repoList taken
\* from the account; batchSize 0 stands for an absent option.
RepoListOptions ==
    {[given |-> FALSE, list |-> <<>>]}
    \cup (IF Len(account) > 0 THEN {[given |-> TRUE, list |-> <<account[1]>>]} ELSE {})

Options ==
    [year : {2024}, publicOnly : {FALSE}, excludeRepos : {<<>>},
     repoList : RepoListOptions, noCache : BOOLEAN, cacheMaxAge : {24},
     batchSize : {0, 3}, username : {NULL, "bob"}]

CacheOptions ==
    [year : {2024}, publicOnly : {FALSE}, excludeRepos : {<<>>},
     repoList : RepoListOptions, noCache : BOOLEAN, cacheMaxAge : {12, 24},
     batchSize : {0}, username : {"bob"}]

\* The statuses the commit listings are answered with under SpecCache: a
\* success, an absorbed failure and the escalated one.
CacheFetchStatuses == {200, 404, 429}

\* Clock steps: one second, one minute, 23 hours 59 minutes.
TickSteps == {1000, 60000, 23 * MsPerHour + 59 * 60000}

InitWorld(maxRepos, dirs) ==
    /\ now = Now0
    /\ analyzer = NoAnalyzerCall
    /\ main = NoMain
    /\ partition = NoPartition
    /\ screen = NoScreen
    /\ ticks = 0
    /\ runsDone = 0
    /\ account \in {Account(n) : n \in 0..maxRepos}
    /\ files \in dirs
    /\ lastWrite = NoWrite
    /\ run = NoRun
    /\ fetcher = NoCall
    /\ lister = NoListerCall
    /\ store = NoStoreCall
    /\ stats = NoStatsCall

\* One run; the cache directory is empty, or holds a corrupt file or an
\* entry one hour old.
Init == InitWorld(MaxRepos, {EmptyDir, DirWith(CorruptFile), DirWith(OldEntry(MsPerHour))})

\* Runs in a row; the entry, if any, is corrupt, lacks fetchedAt, or is
\* 23h59m, exactly 24h or 24h and 1s old.
InitCache ==
    InitWorld(MaxReposCache,
              {EmptyDir, DirWith(CorruptFile),
               DirWith(JsonFile("bob", 2024, 0, <<Repo(1)>>, OldCommits)),
               DirWith(OldEntry(23 * MsPerHour + 59 * 60000)),
               DirWith(OldEntry(24 * MsPerHour)),
               DirWith(OldEntry(24 * MsPerHour + 1000))})

(***************************************************************************)
(* Actions: the code between two suspension points.                        *)
(***************************************************************************)
\* collectAllCommits(options) is called.
Start(options) ==
    /\ run.pc = "idle"
    /\ run' = StartRun(options, files, now, lastWrite)
    /\ UNCHANGED <<now, ticks, runsDone, account, files, lastWrite, direct>>

\* await loadFromCache resolves.
LoadCache ==
    /\ run.pc = "load"
    /\ \E unlinkOk \in BOOLEAN :
         LET loaded == loadFromCache(files, run.options.username,
                                     run.options.year, unlinkOk)
             r == [run EXCEPT !.filesAtLoad = files]
         IN /\ files' = loaded.files
            /\ run' = IF loaded.data.found
                      THEN Return(r, loaded.data.commits)
                      ELSE EnterFresh(r)
    /\ UNCHANGED <<now, ticks, runsDone, account, lastWrite, direct>>

\* await fetchAllRepos resolves or rejects.
ListRepos ==
    /\ run.pc = "listing"
    /\ \E status \in ListStatuses :
         LET listed == fetchAllRepos(account, run.options.publicOnly,
                                     run.options.excludeRepos, status)
         IN run' = AfterList(run, listed)
    /\ UNCHANGED <<now, ticks, runsDone, account, files, lastWrite, direct>>

\* One fetch of a batch settles: fetchCommitsForRepo(...).catch(...).
ResolveFetch(statuses) ==
    /\ \E f \in run.inFlight, status \in statuses :
         LET repo == run.batches[f[1] + 1][f[2]]
             settled == CatchFetch(fetchCommitsForRepo(repo.full_name, status))
             current == f[1] = run.batchIndex /\ run.pc = "await"
         IN run' = [run EXCEPT
                      !.inFlight = run.inFlight \ {f},
                      !.promises = IF current
                                   THEN [@ EXCEPT ![f[2]] =
                                           IF settled.threw THEN "rejected" ELSE "fulfilled"]
                                   ELSE @,
                      !.batchResults = IF current
                                       THEN PromiseAllResults(run.promises, @, f[2],
                                                              settled.value)
                                       ELSE @,
                      !.outOfOrder = @ \/ (current /\ \E k \in 1..(f[2] - 1) :
                                                         run.promises[k] = "pending"),
                      !.failed = IF status = 200 THEN @ ELSE @ \cup {repo.full_name},
                      !.fatalSeen = IF status \in {401, 429} THEN @ \cup {status} ELSE @]
    /\ UNCHANGED <<now, ticks, runsDone, account, files, lastWrite, direct>>

\* await Promise.all(batchPromises) resolves or rejects.
AwaitBatch ==
    /\ run.pc = "await"
    /\ PromiseAll(run.promises) # "pending"
    /\ run' = IF PromiseAll(run.promises) = "rejected"
              THEN Throw(run, "RateLimitExceeded")
              ELSE AfterBatch(run)
    /\ UNCHANGED <<now, ticks, runsDone, account, files, lastWrite, direct>>

\* await saveToCache resolves or rejects; either way the commits are returned.
SaveDone ==
    /\ run.pc = "saving"
    /\ \E writeOk \in BOOLEAN :
         LET saved == saveToCache(files, run.options.username, run.options.year,
                                  [repos |-> run.repos, commits |-> run.allCommitsArray],
                                  now, writeOk)
         IN /\ files' = saved.files
            /\ lastWrite' = IF saved.threw THEN lastWrite
                            ELSE [at |-> now, commits |-> run.allCommitsArray]
            /\ run' = AfterSave(run, saved)
    /\ UNCHANGED <<now, ticks, runsDone, account, direct>>

\* The process exits; the next invocation starts from scratch.
Exit ==
    /\ run.pc = "done"
    /\ runsDone + 1 < MaxRuns
    /\ runsDone' = runsDone + 1
    /\ run' = NoRun
    /\ UNCHANGED <<now, ticks, account, files, lastWrite, direct>>

\* Time passes between two runs.
Tick ==
    /\ run.pc = "idle"
    /\ ticks < MaxTicks
    /\ \E d \in TickSteps : now' = now + d
    /\ ticks' = ticks + 1
    /\ UNCHANGED <<runsDone, account, files, lastWrite, run, direct>>

Collect(statuses) ==
    \/ LoadCache
    \/ ListRepos
    \/ ResolveFetch(statuses)
    \/ AwaitBatch
    \/ SaveDone

Next == (\E options \in Options : Start(options)) \/ Collect(FetchStatuses)

Spec == Init /\ [][Next]_vars

\* Between await isCacheValid and await loadFromCache something else (a
\* --clear-cache, a write in progress) removes the entry or leaves text
\* that does not parse.
Disturb ==
    /\ run.pc = "load"
    /\ files = run.files0
    /\ LET cachePath == getCachePath(run.options.username, run.options.year)
       IN \/ files' = [p \in DOMAIN files \ {cachePath} |-> files[p]]
          \/ files' = [files EXCEPT ![cachePath] = CorruptFile]
    /\ UNCHANGED <<now, ticks, runsDone, account, lastWrite, run, direct>>

NextCache == (\E options \in CacheOptions : Start(options)) \/ Collect(CacheFetchStatuses) \/ Exit \/ Tick

SpecCache == InitCache /\ [][NextCache]_vars

NextRace ==
    \/ \E options \in CacheOptions : Start(options)
    \/ Collect(CacheFetchStatuses)
    \/ Disturb

\* One run over a cache that holds an entry one hour old, in a world where
\* the entry can change under the run.
SpecRace == InitWorld(MaxReposCache, {DirWith(OldEntry(MsPerHour))}) /\ [][NextRace]_vars

(***************************************************************************)
(* fetchCommitsForRepo called directly: Init draws the repository name and *)
(* the answer of the API, the action applies the function.                 *)
(***************************************************************************)
InitFetch ==
    /\ now = Now0
    /\ analyzer = NoAnalyzerCall
    /\ main = NoMain
    /\ partition = NoPartition
    /\ screen = NoScreen
    /\ ticks = 0
    /\ runsDone = 0
    /\ account = Account(0)
    /\ files = EmptyDir
    /\ lastWrite = NoWrite
    /\ run = NoRun
    /\ fetcher \in [pc : {"call"}, repoFullName : 0..MaxRepos,
                     status : FetchStatuses, result : {Returned(<<>>, FALSE)}]
    /\ lister = NoListerCall
    /\ store = NoStoreCall
    /\ stats = NoStatsCall

FetchCall ==
    /\ fetcher.pc = "call"
    /\ fetcher' = [fetcher EXCEPT
                     !.pc = "settled",
                     !.result = fetchCommitsForRepo(fetcher.repoFullName, fetcher.status)]
    /\ UNCHANGED <<partition, screen, main, analyzer, now, ticks, runsDone, account, files, lastWrite, run, lister, store,
                   stats>>

SpecFetch == InitFetch /\ [][FetchCall]_vars

(***************************************************************************)
(* fetchAllRepos called directly.  The account has a handful of            *)
(* repositories, or a whole number of pages of them, or one more than      *)
(* that; the exclusion lists name repositories of the first and of later   *)
(* pages, a repository twice, and a repository the account does not have.  *)
(***************************************************************************)
AccountSizes == (0..3) \cup {p * PerPage + d : p \in 1..MaxPages, d \in {0, 1}}

ExcludeLists == {<<>>, <<1>>, <<2, PerPage + 1>>, <<3, 3>>, <<4, 2>>, <<10 * PerPage>>}

InitLister ==
    /\ now = Now0
    /\ analyzer = NoAnalyzerCall
    /\ main = NoMain
    /\ partition = NoPartition
    /\ screen = NoScreen
    /\ ticks = 0
    /\ runsDone = 0
    /\ account \in {Account(n) : n \in AccountSizes}
    /\ files = EmptyDir
    /\ lastWrite = NoWrite
    /\ run = NoRun
    /\ fetcher = NoCall
    /\ lister \in [pc : {"call"}, publicOnly : BOOLEAN, excludeRepos : ExcludeLists,
                    status : ListStatuses, result : {Returned(<<>>, FALSE)}]
    /\ store = NoStoreCall
    /\ stats = NoStatsCall

ListerCall ==
    /\ lister.pc = "call"
    /\ lister' = [lister EXCEPT
                    !.pc = "settled",
                    !.result = fetchAllRepos(account, lister.publicOnly,
                                             lister.excludeRepos, lister.status)]
    /\ UNCHANGED <<partition, screen, main, analyzer, now, ticks, runsDone, account, files, lastWrite, run, fetcher, store,
                   stats>>

SpecLister == InitLister /\ [][ListerCall]_vars

(***************************************************************************)
(* The Cache Store's functions called directly: clearCache, loadFromCache, *)
(* or saveToCache followed at once by loadFromCache, on a directory that   *)
(* holds entries of two principals, one's name a prefix of the other's.    *)
(***************************************************************************)
Principals == {"bob", "bob-smith"}

Years == (2024 - MaxYears + 1)..2024

Keys == Principals \X Years

\* A directory with an entry, parseable or not, for each key of a set.
DirOf(keys, kind) ==
    [p \in {getCachePath(key[1], key[2]) : key \in keys} |->
        LET key == CHOOSE k \in keys : getCachePath(k[1], k[2]) = p
        IN IF kind = "json"
           THEN JsonFile(key[1], key[2], Now0 - MsPerHour, <<Repo(1)>>, OldCommits)
           ELSE CorruptFile]

\* A commit with its date, held as an ISO string or as a Date object.
DatedCommit(sha, repo, type) ==
    [sha |-> sha, repo |-> repo, date |-> [type |-> type, iso |-> 20240101 + sha]]

\* What saveToCache is handed: the collector's {repos, commits}, an empty
\* result, a result with dated commits, and two values that are not
\* well-formed (repos missing; a date that is a Date object).
StoreData ==
    {[repos |-> <<Repo(1)>>, commits |-> SimplifiedCommits(1)],
     EmptyCollection,
     [repos |-> <<Repo(1), Repo(2)>>,
      commits |-> <<DatedCommit(1, 1, "string"), DatedCommit(2, 2, "string")>>],
     [commits |-> SimplifiedCommits(1)],
     [repos |-> <<Repo(1)>>, commits |-> <<DatedCommit(1, 1, "Date")>>]}

StoreCalls ==
    [pc : {"call"}, op : {"clear"}, username : {NULL} \cup Principals,
     year : {0} \cup Years, data : {EmptyCollection}, before : {EmptyDir},
     result : {[threw |-> FALSE]}]
    \cup [pc : {"call"}, op : {"save", "load"}, username : Principals,
          year : Years, data : StoreData, before : {EmptyDir},
          result : {[threw |-> FALSE]}]

InitStore ==
    /\ now = Now0
    /\ analyzer = NoAnalyzerCall
    /\ main = NoMain
    /\ partition = NoPartition
    /\ screen = NoScreen
    /\ ticks = 0
    /\ runsDone = 0
    /\ account = Account(0)
    /\ files \in {DirOf(keys, kind) : keys \in SUBSET Keys, kind \in {"json", "corrupt"}}
    /\ lastWrite = NoWrite
    /\ run = NoRun
    /\ fetcher = NoCall
    /\ lister = NoListerCall
    /\ store \in {call \in StoreCalls : call.op = "load" => call.data = EmptyCollection}
    /\ stats = NoStatsCall

ClearCall ==
    /\ store.pc = "call"
    /\ store.op = "clear"
    /\ \E failAt \in 0..clearCacheSteps(files, store.username, store.year) :
         LET cleared == clearCache(files, store.username, store.year, failAt)
         IN /\ files' = cleared.files
            /\ store' = [store EXCEPT
                           !.pc = "cleared", !.before = files,
                           !.result = [threw |-> cleared.threw,
                                       deletedFiles |-> cleared.deletedFiles]]
    /\ UNCHANGED <<partition, screen, main, analyzer, now, ticks, runsDone, account, lastWrite, run, fetcher, lister, stats>>

SaveCall ==
    /\ store.pc = "call"
    /\ store.op = "save"
    /\ \E writeOk \in BOOLEAN :
         LET saved == saveToCache(files, store.username, store.year, store.data,
                                  now, writeOk)
         IN /\ files' = saved.files
            /\ store' = [store EXCEPT
                           !.pc = IF saved.threw THEN "failed" ELSE "saved",
                           !.before = files,
                           !.result = [threw |-> saved.threw]]
    /\ UNCHANGED <<partition, screen, main, analyzer, now, ticks, runsDone, account, lastWrite, run, fetcher, lister, stats>>

LoadCall ==
    /\ store.pc = "saved" \/ (store.pc = "call" /\ store.op = "load")
    /\ \E unlinkOk \in BOOLEAN :
         LET loaded == loadFromCache(files, store.username, store.year, unlinkOk)
         IN /\ files' = loaded.files
            /\ store' = [store EXCEPT
                           !.pc = "loaded",
                           !.before = IF store.pc = "call" THEN files ELSE @,
                           !.result = loaded.data]
    /\ UNCHANGED <<partition, screen, main, analyzer, now, ticks, runsDone, account, lastWrite, run, fetcher, lister, stats>>

NextStore == ClearCall \/ SaveCall \/ LoadCall

SpecStore == InitStore /\ [][NextStore]_vars

(***************************************************************************)
(* A statistic called directly on a list of commits.  The dates are those  *)
(* of the first days of January, the turn of February to March, and the    *)
(* days around the start of daylight saving time.                          *)
(***************************************************************************)
CommitDates ==
    {<<1, 1>>, <<1, 2>>, <<1, 3>>, <<1, 5>>, <<2, 29>>, <<3, 1>>,
     <<3, 9>>, <<3, 10>>, <<3, 11>>}

\* A commit of a repository authored on a day, at noon local time.
CommitOf(dateKey, repo) ==
    [sha |-> 1, repo |-> repo,
     date |-> [month |-> dateKey[1], day |-> dateKey[2], minute |-> 720]]

CommitOn(dateKey) == CommitOf(dateKey, 1)

CommitLists ==
    UNION {[1..n -> {CommitOn(dateKey) : dateKey \in CommitDates}] : n \in 0..MaxCommits}

InitStats ==
    /\ now = Now0
    /\ analyzer = NoAnalyzerCall
    /\ main = NoMain
    /\ partition = NoPartition
    /\ screen = NoScreen
    /\ ticks = 0
    /\ runsDone = 0
    /\ account = Account(0)
    /\ files = EmptyDir
    /\ lastWrite = NoWrite
    /\ run = NoRun
    /\ fetcher = NoCall
    /\ lister = NoListerCall
    /\ store = NoStoreCall
    /\ stats \in {StatsCallOf("call", commits, tz, DefaultLimit) :
                       commits \in CommitLists, tz \in Timezones}

StatsCall ==
    /\ stats.pc = "call"
    /\ stats' = [stats EXCEPT
                   !.pc = "returned",
                   !.streak = calculateLongestStreak(stats.commits, stats.tz),
                   !.total = calculateTotalCommits(stats.commits),
                   !.byWeekday = getCommitsByDayOfWeek(stats.commits),
                   !.topRepos = getTopRepositories(stats.commits, stats.limit)]
    /\ UNCHANGED <<partition, screen, main, analyzer, now, ticks, runsDone, account, files, lastWrite, run, fetcher,
                   lister, store>>

SpecStats == InitStats /\ [][StatsCall]_vars

(***************************************************************************)
(* getTopRepositories called directly on commits of up to three            *)
(* repositories, with a limit below, at and above their number.            *)
(***************************************************************************)
InitTop ==
    /\ now = Now0
    /\ analyzer = NoAnalyzerCall
    /\ main = NoMain
    /\ partition = NoPartition
    /\ screen = NoScreen
    /\ ticks = 0
    /\ runsDone = 0
    /\ account = Account(0)
    /\ files = EmptyDir
    /\ lastWrite = NoWrite
    /\ run = NoRun
    /\ fetcher = NoCall
    /\ lister = NoListerCall
    /\ store = NoStoreCall
    /\ stats \in {StatsCallOf("call", commits, "UTC", limit) :
                       commits \in UNION {[1..n -> {CommitOf(<<1, 1>>, repo) : repo \in 1..3}] :
                                              n \in 0..(MaxCommits + 1)},
                       limit \in {1, 2, DefaultLimit}}

SpecTop == InitTop /\ [][StatsCall]_vars

(***************************************************************************)
(* The statistics called on commits of two repositories in any order of    *)
(* authoring dates.                                                        *)
(***************************************************************************)
ShuffleDates == {<<1, 1>>, <<1, 2>>, <<1, 3>>, <<3, 10>>, <<3, 11>>}

InitShuffle ==
    /\ now = Now0
    /\ analyzer = NoAnalyzerCall
    /\ main = NoMain
    /\ partition = NoPartition
    /\ screen = NoScreen
    /\ ticks = 0
    /\ runsDone = 0
    /\ account = Account(0)
    /\ files = EmptyDir
    /\ lastWrite = NoWrite
    /\ run = NoRun
    /\ fetcher = NoCall
    /\ lister = NoListerCall
    /\ store = NoStoreCall
    /\ stats \in {StatsCallOf("call", commits, tz, DefaultLimit) :
                       commits \in UNION {[1..n -> {CommitOf(d, repo) : d \in ShuffleDates,
                                                                           repo \in 1..2}] :
                                              n \in 0..MaxShuffled},
                       tz \in Timezones}

SpecShuffle == InitShuffle /\ [][StatsCall]_vars

(***************************************************************************)
(* The Message Analyzer called directly on commits with messages.          *)
(***************************************************************************)
Messages ==
    {"Fix the bug", "the fix", "fix: typo", "Release v10.20.30", "Bump v1.2.3",
     "merge 1.2.345", "  "}

\* The commits of repository 1 with these messages.
MessageCommits == {[sha |-> 1, repo |-> 1, message |-> m] : m \in Messages}

InitWords ==
    /\ now = Now0
    /\ ticks = 0
    /\ runsDone = 0
    /\ account = Account(0)
    /\ files = EmptyDir
    /\ lastWrite = NoWrite
    /\ run = NoRun
    /\ fetcher = NoCall
    /\ lister = NoListerCall
    /\ store = NoStoreCall
    /\ stats = NoStatsCall
    /\ main = NoMain
    /\ partition = NoPartition
    /\ screen = NoScreen
    /\ analyzer \in {AnalyzerCallOf("call", commits, DefaultWordLimit) :
                          commits \in UNION {[1..n -> MessageCommits] :
                                                 n \in 0..MaxMessages}}

\* getTopWords and getCommitMessageStats, as main calls them one after the
\* other; a TypeError of either ends the call.
AnalyzerCall ==
    /\ analyzer.pc = "call"
    /\ LET messageStats == getCommitMessageStats(analyzer.commits)
       IN analyzer' =
            IF messageStats = TypeError
            THEN [analyzer EXCEPT !.pc = "threw"]
            ELSE [analyzer EXCEPT
                    !.pc = "returned",
                    !.topWords = getTopWords(analyzer.commits, analyzer.limit),
                    !.messageStats = messageStats]
    /\ UNCHANGED <<partition, screen, main, now, ticks, runsDone, account, files, lastWrite, run, fetcher,
                   lister, store, stats>>

SpecWords == InitWords /\ [][AnalyzerCall]_vars

(***************************************************************************)
(* The batch partitioning loop of collectAllCommits, one iteration per     *)
(* step, for a non-empty repository list and any integer batchSize option; *)
(* 0 stands for an absent option.                                          *)
(***************************************************************************)
BatchSizes == (0 - 2)..4

InitPartition ==
    /\ now = Now0
    /\ ticks = 0
    /\ runsDone = 0
    /\ account = Account(0)
    /\ files = EmptyDir
    /\ lastWrite = NoWrite
    /\ run = NoRun
    /\ fetcher = NoCall
    /\ lister = NoListerCall
    /\ store = NoStoreCall
    /\ stats = NoStatsCall
    /\ analyzer = NoAnalyzerCall
    /\ main = NoMain
    /\ screen = NoScreen
    /\ partition \in {[NoPartition EXCEPT !.pc = "loop", !.repos = Account(n),
                                           !.batchSize = size] :
                          n \in 1..MaxRepos, size \in BatchSizes}

\* One iteration: batches.push(repos.slice(i, i + BATCH_SIZE)); i += BATCH_SIZE.
\* The loop is followed for one iteration more than there are repositories.
PushBatch ==
    /\ partition.pc = "loop"
    /\ partition.i < Len(partition.repos)
    /\ Len(partition.batches) <= Len(partition.repos)
    /\ partition' = [partition EXCEPT
                       !.batches = Append(@, NextBatch(partition.repos,
                                                       BATCH_SIZE(partition), partition.i)),
                       !.i = @ + BATCH_SIZE(partition)]
    /\ UNCHANGED <<now, ticks, runsDone, account, files, lastWrite, run, fetcher,
                   lister, store, stats, analyzer, main, screen>>

\* The loop condition i < repos.length fails.
BatchesDone ==
    /\ partition.pc = "loop"
    /\ ~(partition.i < Len(partition.repos))
    /\ partition' = [partition EXCEPT !.pc = "done"]
    /\ UNCHANGED <<now, ticks, runsDone, account, files, lastWrite, run, fetcher,
                   lister, store, stats, analyzer, main, screen>>

NextPartition == PushBatch \/ BatchesDone

SpecPartition == InitPartition /\ [][NextPartition]_vars

(***************************************************************************)
(* The RecapScreen component.  Its callbacks (the input handler useInput   *)
(* subscribes, the interval callbacks) are created by a render and         *)
(* installed by that render's passive effects, which run some time after   *)
(* the commit: until then the callbacks of the render before are the ones  *)
(* installed.  A state update coming from a callback is rendered at once,  *)
(* after the effects still pending have run.                               *)
(***************************************************************************)
InitScreen ==
    /\ now = Now0
    /\ ticks = 0
    /\ runsDone = 0
    /\ account = Account(0)
    /\ files = EmptyDir
    /\ lastWrite = NoWrite
    /\ run = NoRun
    /\ fetcher = NoCall
    /\ lister = NoListerCall
    /\ store = NoStoreCall
    /\ stats = NoStatsCall
    /\ analyzer = NoAnalyzerCall
    /\ main = NoMain
    /\ partition = NoPartition
    /\ screen \in {[NoScreen EXCEPT !.pc = "rendered", !.noAnimation = noAnimation] :
                       noAnimation \in BOOLEAN}

\* The effects of the first render: the intervals start, the handler is
\* subscribed, and with noAnimation the last effect sets the final screen.
Mount ==
    /\ screen.pc = "rendered"
    /\ screen' = [RunEffects(screen) EXCEPT
                    !.pc = "mounted",
                    !.currentScreen = IF screen.noAnimation THEN totalScreens - 1 ELSE @]
    /\ UNCHANGED <<now, ticks, runsDone, account, files, lastWrite, run, fetcher,
                   lister, store, stats, analyzer, main, partition>>

\* The scheduler gets to run the pending passive effects.
FlushEffects ==
    /\ screen.pc = "mounted"
    /\ screen.closure # screen.currentScreen
    /\ screen' = RunEffects(screen)
    /\ UNCHANGED <<now, ticks, runsDone, account, files, lastWrite, run, fetcher,
                   lister, store, stats, analyzer, main, partition>>

\* The 500 ms interval of the welcome screen fires.
DotsTick ==
    /\ screen.pc = "mounted"
    /\ screen.closure = 0 /\ ~screen.noAnimation
    /\ screen' = [RunEffects(screen) EXCEPT
                    !.dots = IF Len(screen.dots) >= 3 THEN "" ELSE screen.dots \o "."]
    /\ UNCHANGED <<now, ticks, runsDone, account, files, lastWrite, run, fetcher,
                   lister, store, stats, analyzer, main, partition>>

\* The 1000 ms interval fires: the countdown updater, which at 1 advances
\* the screen if the currentScreen the interval closed over is not the last.
TimerTick ==
    /\ screen.pc = "mounted"
    /\ ~screen.noAnimation /\ screen.closure # totalScreens - 1
    /\ LET fired == screen.countdown <= 1
           restarted == RunEffects(screen).countdown # screen.countdown
       IN screen' = [RunEffects(screen) EXCEPT
                       !.currentScreen = IF fired /\ screen.closure < totalScreens - 1
                                         THEN @ + 1 ELSE @,
                       !.countdown = IF fired \/ restarted THEN CountdownStart
                                     ELSE @ - 1]
    /\ UNCHANGED <<now, ticks, runsDone, account, files, lastWrite, run, fetcher,
                   lister, store, stats, analyzer, main, partition>>

\* Enter or Space reaches the subscribed handler: isFinalScreen and
\* currentScreen in its guard are those it closed over.
KeyPress ==
    /\ screen.pc = "mounted"
    /\ LET isFinalScreen == screen.closure = totalScreens - 1
       IN screen' = IF ~isFinalScreen /\ screen.closure < totalScreens - 1
                    THEN [RunEffects(screen) EXCEPT !.currentScreen = @ + 1,
                                                    !.countdown = CountdownStart]
                    ELSE screen
    /\ UNCHANGED <<now, ticks, runsDone, account, files, lastWrite, run, fetcher,
                   lister, store, stats, analyzer, main, partition>>

NextScreen == Mount \/ FlushEffects \/ DotsTick \/ TimerTick \/ KeyPress

SpecScreen == InitScreen /\ [][NextScreen]_vars

(***************************************************************************)
(* main of index.js: the tool is invoked as bob for the year 2024, resolves *)
(* --repo or collects from all repositories, and lists the repositories    *)
(* for the statistics.                                                     *)
(***************************************************************************)
\* The options main passes to collectAllCommits without --repo.
CollectAllOptions(cli) ==
    [year |-> 2024, publicOnly |-> cli.publicOnly, excludeRepos |-> cli.exclude,
     repoList |-> [given |-> FALSE, list |-> <<>>], noCache |-> cli.noCache,
     cacheMaxAge |-> 24, batchSize |-> DefaultBatchSize, username |-> "bob"]

\* The options main passes to collectAllCommits for the repository --repo
\* names.
CollectRepoOptions(cli, targetRepo) ==
    [year |-> 2024, publicOnly |-> FALSE, excludeRepos |-> <<>>,
     repoList |-> [given |-> TRUE, list |-> <<targetRepo>>], noCache |-> cli.noCache,
     cacheMaxAge |-> 24, batchSize |-> DefaultBatchSize, username |-> "bob"]

\* --repo by full name, by name, by a part of the names, and a name no
\* repository has.
RepoPatterns == {"bob/r2", "r1", "r", "zzz"}

MainCli ==
    [repo : {NULL} \cup RepoPatterns, publicOnly : BOOLEAN, exclude : {<<>>, <<2>>},
     noCache : BOOLEAN]

FilterCli ==
    [repo : {NULL}, publicOnly : BOOLEAN, exclude : {<<>>, <<1>>}, noCache : {FALSE}]

\* The tool is started; the options are parsed and bob is authenticated.
Invoke(cli) ==
    /\ main.pc = "idle"
    /\ run.pc = "idle"
    /\ main' = [main EXCEPT !.pc = "started", !.cli = cli]
    /\ UNCHANGED <<now, ticks, runsDone, account, files, lastWrite, run, fetcher,
                   lister, store, stats, analyzer, partition, screen>>

\* if (options.repo): await fetchAllRepos, findRepository, and on a match
\* the call of collectAllCommits for the one repository.
ResolveRepo ==
    /\ main.pc = "started"
    /\ main.cli.repo # NULL
    /\ \E status \in ListStatuses :
         LET allRepos == fetchAllRepos(account, main.cli.publicOnly,
                                       main.cli.exclude, status)
             found == findRepository(allRepos.value, main.cli.repo)
             listed == [main EXCEPT !.listerCalls = @ + 1]
         IN IF allRepos.threw
            THEN /\ main' = [listed EXCEPT !.pc = "failed", !.error = allRepos.error]
                 /\ run' = run
            ELSE IF found.match # NoRepository
            THEN /\ main' = [listed EXCEPT !.pc = "collect", !.resolved = TRUE,
                                           !.found = found, !.repos = <<found.match>>]
                 /\ run' = StartRun(CollectRepoOptions(main.cli, found.match),
                                    files, now, lastWrite)
            ELSE /\ main' = [listed EXCEPT !.pc = "exit", !.resolved = TRUE,
                                           !.found = found, !.error = "NotFound"]
                 /\ run' = run
    /\ UNCHANGED <<now, ticks, runsDone, account, files, lastWrite, fetcher, lister,
                   store, stats, analyzer, partition, screen>>

\* else: the call of collectAllCommits for all repositories.
CollectAll ==
    /\ main.pc = "started"
    /\ main.cli.repo = NULL
    /\ main' = [main EXCEPT !.pc = "collect"]
    /\ run' = StartRun(CollectAllOptions(main.cli), files, now, lastWrite)
    /\ UNCHANGED <<now, ticks, runsDone, account, files, lastWrite, fetcher, lister,
                   store, stats, analyzer, partition, screen>>

\* await collectAllCommits resolves or rejects.
Collected ==
    /\ main.pc = "collect"
    /\ run.pc = "done"
    /\ main' = IF run.outcome.kind = "threw"
               THEN [main EXCEPT !.pc = "failed", !.error = run.outcome.error]
               ELSE [main EXCEPT !.pc = IF main.cli.repo # NULL THEN "stats" ELSE "listing",
                                 !.commits = run.outcome.commits]
    /\ UNCHANGED <<now, ticks, runsDone, account, files, lastWrite, run, fetcher,
                   lister, store, stats, analyzer, partition, screen>>

\* repos = await fetchAllRepos(...) for the statistics.
ListForStatistics ==
    /\ main.pc = "listing"
    /\ \E status \in ListStatuses :
         LET listed == fetchAllRepos(account, main.cli.publicOnly,
                                     main.cli.exclude, status)
         IN main' = IF listed.threw
                    THEN [main EXCEPT !.pc = "failed", !.error = listed.error,
                                      !.listerCalls = @ + 1]
                    ELSE [main EXCEPT !.pc = "stats", !.repos = listed.value,
                                      !.listerCalls = @ + 1]
    /\ UNCHANGED <<now, ticks, runsDone, account, files, lastWrite, run, fetcher,
                   lister, store, stats, analyzer, partition, screen>>

\* The process exits; the next invocation starts from scratch.
MainExit ==
    /\ main.pc \in {"stats", "failed", "exit"}
    /\ runsDone + 1 < MaxRuns
    /\ runsDone' = runsDone + 1
    /\ run' = NoRun
    /\ main' = [NoMain EXCEPT !.earlier = Append(main.earlier, main.cli)]
    /\ UNCHANGED <<now, ticks, account, files, lastWrite, fetcher, lister, store,
                   stats, analyzer, partition, screen>>

NextMain ==
    \/ \E cli \in MainCli : Invoke(cli)
    \/ ResolveRepo
    \/ CollectAll
    \/ Collect(CacheFetchStatuses)
    \/ Collected
    \/ ListForStatistics

\* One invocation; the cache directory is empty or holds an entry one hour old.
SpecMain ==
    InitWorld(MaxReposCache, {EmptyDir, DirWith(OldEntry(MsPerHour))}) /\ [][NextMain]_vars

NextFilters ==
    \/ \E cli \in FilterCli : Invoke(cli)
    \/ CollectAll
    \/ Collect({200})
    \/ Collected
    \/ ListForStatistics
    \/ MainExit

\* Invocations in a row without --repo, under any filters; the cache
\* directory is empty at first.
SpecFilters == InitWorld(MaxReposCache, {EmptyDir}) /\ [][NextFilters]_vars

(***************************************************************************)
(* Properties.                                                             *)
(***************************************************************************)
\* The batch size a caller asks for: the option, 5 when it is absent.
RequestedBatchSize(options) == IF options.batchSize = 0 THEN 5 ELSE options.batchSize

\* Caching is enabled, a principal is known and no explicit list is given.
CachingEnabled(options) ==
    options.username # NULL /\ ~options.noCache /\ ~options.repoList.given

CachePathOf(options) == getCachePath(options.username, options.year)

\* The directory holds an entry for the options' (principal, year) that
\* parses, carries fetchedAt and is younger than cacheMaxAge hours at time at.
EntryValid(dir, options, at) ==
    /\ CachePathOf(options) \in DOMAIN dir
    /\ dir[CachePathOf(options)].kind = "json"
    /\ dir[CachePathOf(options)].fetchedAt # 0
    /\ at - dir[CachePathOf(options)].fetchedAt < options.cacheMaxAge * MsPerHour

\* The commits of the repositories that did not fail, in list order.
ExpectedCommits(repos, failed) ==
    Flatten([i \in 1..Len(repos) |->
                IF repos[i].full_name \in failed THEN <<>>
                ELSE SimplifiedCommits(repos[i].full_name)])

\* C1: batches run strictly in sequence: every commit fetch still in flight
\* belongs to the batch the loop is at, so no fetch of batch k+1 is started
\* while a fetch of batch k is unresolved, whether it succeeds or fails.
C1_BatchesSequential ==
    \A f \in run.inFlight : run.pc = "await" /\ f[1] = run.batchIndex

\* The second batch is in flight after a first batch with a failed and a
\* successful fetch.
C1_Witness ==
    /\ run.pc = "await"
    /\ run.batchIndex = 1
    /\ run.inFlight # {}
    /\ \E i, j \in 1..3 : /\ run.repos[i].full_name \in run.failed
                          /\ run.repos[j].full_name \notin run.failed

\* C2: at every instant the number of commit fetches in flight is at most
\* batchSize (5 when the option is absent).
C2_InFlightBounded ==
    Cardinality(run.inFlight) <= RequestedBatchSize(run.options)

\* Seven repositories, batch size 3: the second batch has 3 fetches in flight.
C2_Witness ==
    /\ Len(run.repos) = 7
    /\ run.options.batchSize = 3
    /\ run.batchIndex = 1
    /\ Cardinality(run.inFlight) = 3

\* C3: batch isolation: whatever subset of the repositories fails with a
\* per-repository failure, the run completes all ceil(N/B) batches and
\* returns exactly the commits of the repositories that did not fail.
C3_BatchIsolation ==
    (run.pc = "done" /\ run.fetchCalls > 0 /\ run.fatalSeen = {})
    => /\ run.outcome.kind = "returned"
       /\ run.outcome.commits = ExpectedCommits(run.repos, run.failed)
       /\ run.fetchCalls = Len(run.repos)
       /\ run.batchIndex + 1 = Len(run.batches)
       /\ Len(run.batches) =
             (Len(run.repos) + RequestedBatchSize(run.options) - 1)
                \div RequestedBatchSize(run.options)

\* 7 repositories, batch size 3, repository #4 failing: 3 batches (3, 3, 1)
\* and the commits of the other 6 repositories.
C3_Witness ==
    /\ run.pc = "done"
    /\ Len(run.repos) = 7
    /\ run.options.batchSize = 3
    /\ run.failed = {4}
    /\ run.fatalSeen = {}
    /\ [k \in 1..Len(run.batches) |-> Len(run.batches[k])] = <<3, 3, 1>>
    /\ run.outcome.kind = "returned"
    /\ run.outcome.commits = ExpectedCommits(run.repos, {4})
    /\ Len(run.outcome.commits) = 6

\* C4: a rate-limit response (429) to any commit fetch is fatal to the run:
\* the run ends by throwing the rate-limit error, not by returning.
C4_RateLimitFatal ==
    (run.pc = "done" /\ 429 \in run.fatalSeen)
    => (run.outcome.kind = "threw" /\ run.outcome.error = "RateLimitExceeded")

\* C5: an authentication failure (401) of a commit fetch surfaces as a fatal
\* error of the run instead of an empty result for that repository.
C5_AuthFailureFatal ==
    (run.pc = "done" /\ 401 \in run.fatalSeen) => run.outcome.kind = "threw"

C7_CacheHit ==
    (/\ run.pc # "idle"
     /\ CachingEnabled(run.options)
     /\ EntryValid(run.files0, run.options, run.startedAt))
    => /\ run.listerCalls = 0
       /\ run.fetchCalls = 0
       /\ files = run.files0
       /\ run.pc \in {"load", "done"}
       /\ run.pc = "done" =>
             /\ run.outcome.kind = "returned"
             /\ run.outcome.commits = run.files0[CachePathOf(run.options)].commits

\* A run over an account of two repositories returned the old entry's commits.
C7_Witness ==
    /\ run.pc = "done"
    /\ CachingEnabled(run.options)
    /\ EntryValid(run.files0, run.options, run.startedAt)
    /\ Len(account) = 2
    /\ run.outcome.commits = OldCommits
    /\ files = run.files0

\* C8: once a fresh run has written the cache, every later run with caching
\* enabled that starts less than cacheMaxAge hours after that write calls
\* neither the Lister nor a commit fetch and returns the commits written.
C8_OneFetchPerWindow ==
    (/\ run.pc # "idle"
     /\ CachingEnabled(run.options)
     /\ run.prevWrite.at # 0
     /\ run.startedAt - run.prevWrite.at < run.options.cacheMaxAge * MsPerHour)
    => /\ run.listerCalls = 0
       /\ run.fetchCalls = 0
       /\ run.pc = "done" =>
             /\ run.outcome.kind = "returned"
             /\ run.outcome.commits = run.prevWrite.commits

\* A run started 23h59m after the write of an earlier fresh run returned the
\* commits written, without a fetch.
C8_Witness ==
    /\ run.pc = "done"
    /\ CachingEnabled(run.options)
    /\ run.prevWrite.at # 0
    /\ run.startedAt - run.prevWrite.at = 23 * MsPerHour + 59 * 60000
    /\ run.options.cacheMaxAge = 24
    /\ run.fetchCalls = 0
    /\ run.outcome.commits = run.prevWrite.commits
    /\ Len(run.outcome.commits) > 0

\* C9: isCacheValid reports valid iff the entry exists, parses, carries
\* fetchedAt and now - fetchedAt < maxAgeHours; with maxAgeHours = 24 an
\* entry aged 24h or more is invalid and one aged 23h59m is valid.
C9_ValidityRule ==
    (run.pc # "idle" /\ run.cacheCheck.consulted)
    => /\ run.cacheCheck.valid <=> EntryValid(run.files0, run.options, run.startedAt)
       /\ LET path == CachePathOf(run.options) IN
          (/\ path \in DOMAIN run.files0
           /\ run.files0[path].kind = "json"
           /\ run.files0[path].fetchedAt # 0
           /\ run.options.cacheMaxAge = 24)
          => LET ageMs == run.startedAt - run.files0[path].fetchedAt IN
             /\ ageMs >= 24 * MsPerHour => ~run.cacheCheck.valid
             /\ ageMs = 23 * MsPerHour + 59 * 60000 => run.cacheCheck.valid

\* An entry aged exactly 24 hours is reported invalid under maxAgeHours = 24.
C9_Witness ==
    /\ run.pc # "idle"
    /\ run.cacheCheck.consulted
    /\ run.options.cacheMaxAge = 24
    /\ CachePathOf(run.options) \in DOMAIN run.files0
    /\ run.files0[CachePathOf(run.options)].kind = "json"
    /\ run.startedAt - run.files0[CachePathOf(run.options)].fetchedAt = 24 * MsPerHour
    /\ ~run.cacheCheck.valid

\* C10: a corrupt entry is deleted by the read that finds it: once a run has
\* consulted the cache, no corrupt entry for (principal, year) exists.
C10_CorruptDeletedOnRead ==
    (run.pc # "idle" /\ run.cacheCheck.consulted)
    => ~(/\ CachePathOf(run.options) \in DOMAIN files
         /\ files[CachePathOf(run.options)].kind = "corrupt")

\* C11: within one run the cache entry is written at most once, and only
\* after the last batch has fully resolved: whenever the run has written, or
\* the cache directory differs from what it was at the start of the run, no
\* fetch is in flight, every repository has been fetched and the batch loop
\* has passed its last batch.
C11_WriteOnceAfterLastBatch ==
    /\ run.cacheWrites <= 1
    /\ (run.pc # "idle" /\ (run.cacheWrites = 1 \/ files # run.files0))
       => /\ run.pc = "done"
          /\ run.inFlight = {}
          /\ run.fetchCalls = Len(run.repos)
          /\ run.batchIndex + 1 = Len(run.batches)
          /\ run.state.processedCount = run.state.totalCount

\* A run of three batches wrote its commits to the cache, once.
C11_Witness ==
    /\ run.pc = "done"
    /\ run.cacheWrites = 1
    /\ Len(run.batches) = 3
    /\ files # run.files0
    /\ files[CachePathOf(run.options)].commits = run.allCommitsArray
    /\ Len(run.allCommitsArray) > 0

\* C12: after a fresh run without an explicit list that returns normally for
\* a known principal, the cache holds an entry for (principal, year) with the
\* repositories and commits of this run, unless the write itself failed;
\* for every repository set the Lister returns, the empty one included.
C12_FreshRunCached ==
    (/\ run.pc = "done"
     /\ run.outcome.kind = "returned"
     /\ run.listerCalls > 0
     /\ SavesCache(run.options)
     /\ ~run.saveThrew)
    => /\ CachePathOf(run.options) \in DOMAIN files
       /\ files[CachePathOf(run.options)].kind = "json"
       /\ files[CachePathOf(run.options)].repos = run.repos
       /\ files[CachePathOf(run.options)].commits = run.outcome.commits

\* C13: if the cache write at the end of a fresh run fails, the run does not
\* raise: it returns the complete list of freshly fetched commits.
C13_WriteFailureAbsorbed ==
    (run.pc = "done" /\ run.saveThrew)
    => /\ run.outcome.kind = "returned"
       /\ run.outcome.commits = run.allCommitsArray
       /\ run.outcome.commits = ExpectedCommits(run.repos, run.failed)
       /\ run.fetchCalls = Len(run.repos)

\* A run of two batches whose cache write failed returned its commits; the
\* cache directory is as it was.
C13_Witness ==
    /\ run.pc = "done"
    /\ run.saveThrew
    /\ Len(run.batches) = 2
    /\ run.outcome.kind = "returned"
    /\ Len(run.outcome.commits) > 0
    /\ files = run.files0

\* C14: a run with an explicit repository list never reads from and never
\* writes to the cache: the cache is not consulted, the run returns the
\* commits it fetched for the list, never cached ones, and the cache
\* directory is the same before and after.
C14_ExplicitListBypassesCache ==
    (run.pc # "idle" /\ run.options.repoList.given)
    => /\ ~run.cacheCheck.consulted
       /\ run.pc \notin {"load", "saving"}
       /\ run.cacheWrites = 0
       /\ files = run.files0
       /\ (run.pc = "done" /\ run.outcome.kind = "returned")
          => run.outcome.commits = ExpectedCommits(run.options.repoList.list, run.failed)

\* A run on an explicit one-repository list, started with caching enabled
\* over a valid entry, returned the fetched commit and not the cached one.
C14_Witness ==
    /\ run.pc = "done"
    /\ run.options.repoList.given
    /\ ~run.options.noCache
    /\ EntryValid(run.files0, run.options, run.startedAt)
    /\ run.outcome.commits = SimplifiedCommits(1)
    /\ run.outcome.commits # run.files0[CachePathOf(run.options)].commits
    /\ files = run.files0

\* C15: if the Repository Lister fails, for whatever reason, the run fails
\* with the Lister's error: no commit fetch is issued, nothing is returned,
\* and the cache directory is left as it was.
C15_ListerFailureFatal ==
    (run.listerError # "none")
    => /\ run.pc = "done"
       /\ run.outcome.kind = "threw"
       /\ run.outcome.error = run.listerError
       /\ run.outcome.commits = <<>>
       /\ run.fetchCalls = 0
       /\ run.inFlight = {}
       /\ run.cacheWrites = 0
       /\ files = run.files0

\* The listing of a seven-repository account failed without a special-cased
\* status, over a directory that holds an entry: the run threw.
C15_Witness ==
    /\ run.pc = "done"
    /\ run.listerError = "FetchReposFailed"
    /\ run.outcome.kind = "threw"
    /\ Len(account) = 7
    /\ run.files0 # EmptyDir
    /\ files = run.files0

\* The repositories of the account the options let through: not private
\* when publicOnly is set, and full_name not a member of excludeRepos.
Passes(repo, publicOnly, excludeRepos) ==
    /\ ~(publicOnly /\ repo.private)
    /\ repo.full_name \notin {excludeRepos[k] : k \in 1..Len(excludeRepos)}

\* C16: fetchAllRepos({publicOnly, excludeRepos}) returns exactly the
\* repositories of the full listing that pass the two filters, in listing
\* order: the k-th repository returned is the k-th of the listing that
\* passes, and nothing else is dropped or added.
C16_ListerFilters ==
    (lister.pc = "settled" /\ lister.status = 200)
    => LET kept == {i \in 1..Len(account) :
                       Passes(account[i], lister.publicOnly, lister.excludeRepos)}
           value == lister.result.value
       IN /\ ~lister.result.threw
          /\ Len(value) = Cardinality(kept)
          /\ \A i \in kept :
                value[Cardinality({j \in kept : j <= i})] = account[i]

\* publicOnly with repository 3 excluded (named twice) over an account of
\* 101 repositories: of the 51 public ones, 50 are returned, in order.
C16_Witness ==
    /\ lister.pc = "settled"
    /\ lister.status = 200
    /\ lister.publicOnly
    /\ lister.excludeRepos = <<3, 3>>
    /\ Len(account) = PerPage + 1
    /\ Len(lister.result.value) = 50
    /\ lister.result.value[1] = Repo(1)
    /\ lister.result.value[2] = Repo(5)

\* C17: pagination never truncates: with no filter set, the Lister's output
\* is the whole listing, every repository of it in order, so its size is the
\* true total also when the account has more repositories than one page.
C17_PaginationComplete ==
    (/\ lister.pc = "settled"
     /\ lister.status = 200
     /\ ~lister.publicOnly
     /\ lister.excludeRepos = <<>>)
    => /\ ~lister.result.threw
       /\ Len(lister.result.value) = Len(account)
       /\ lister.result.value = account

\* An account of one repository more than a whole number (two or more) of
\* full pages is returned whole.
C17_Witness ==
    /\ lister.pc = "settled"
    /\ lister.status = 200
    /\ ~lister.publicOnly
    /\ lister.excludeRepos = <<>>
    /\ Len(account) > 2 * PerPage
    /\ Len(account) % PerPage = 1
    /\ Len(lister.result.value) = Len(account)
    /\ lister.result.value[Len(account)] = Repo(Len(account))

\* The cache files of a principal: one per year.
EntriesOf(username) == {getCachePath(username, y) : y \in Years}

\* C18: a clearCache call that returns has removed: with no arguments, every
\* entry; with only a principal, that principal's entries of all years; with
\* principal and year, exactly that one entry and nothing else.  In each
\* case the list returned holds exactly the entries removed, each once, and
\* the entries not removed are as they were.
C18_ClearCache ==
    (store.pc = "cleared" /\ ~store.result.threw)
    => LET removed == DOMAIN store.before \ DOMAIN files
           deleted == store.result.deletedFiles
       IN /\ {deleted[k] : k \in 1..Len(deleted)} = removed
          /\ Len(deleted) = Cardinality(removed)
          /\ DOMAIN files \subseteq DOMAIN store.before
          /\ \A p \in DOMAIN files : files[p] = store.before[p]
          /\ (store.username = NULL /\ store.year = 0) => DOMAIN files = {}
          /\ (store.username # NULL /\ store.year = 0)
                => DOMAIN files \cap EntriesOf(store.username) = {}
          /\ (store.username # NULL /\ store.year # 0)
                => removed = DOMAIN store.before
                                \cap {getCachePath(store.username, store.year)}

\* clearCache("bob-smith", 2024) on a directory with all four entries
\* removed that entry alone and returned its path.
C18_Witness ==
    /\ store.pc = "cleared"
    /\ ~store.result.threw
    /\ store.username = "bob-smith"
    /\ store.year = 2024
    /\ Cardinality(DOMAIN store.before) = 4
    /\ store.result.deletedFiles = <<"github-data-bob-smith-2024.json">>
    /\ Cardinality(DOMAIN files) = 3

\* A CollectionResult {repos, commits}: both arrays present, every date a
\* string.
WellFormed(data) ==
    /\ DOMAIN data = {"repos", "commits"}
    /\ \A k \in 1..Len(data.commits) :
          "date" \in DOMAIN data.commits[k] => data.commits[k].date.type = "string"

\* C19: cache round trip: for every well-formed X = {repos, commits},
\* loadFromCache(principal, year) right after a saveToCache(principal, year, X)
\* that returned yields a value equal to X.
C19_RoundTrip ==
    (store.pc = "loaded" /\ store.op = "save" /\ WellFormed(store.data))
    => /\ store.result.found
       /\ [repos |-> store.result.repos, commits |-> store.result.commits] = store.data

\* Two repositories and two dated commits, saved over a corrupt entry of the
\* same key, came back as saved.
C19_Witness ==
    /\ store.pc = "loaded"
    /\ store.op = "save"
    /\ WellFormed(store.data)
    /\ Len(store.data.repos) = 2
    /\ Len(store.data.commits) = 2
    /\ getCachePath(store.username, store.year) \in DOMAIN store.before
    /\ store.before[getCachePath(store.username, store.year)].kind = "corrupt"
    /\ store.result.commits = store.data.commits

\* The numbers of the calendar days that have a commit.
ActiveDays(commits) == {DayNumber(DateKey(commits[k])) : k \in 1..Len(commits)}

\* The calendar days from..to all have a commit.
IsRun(active, from, to) == \A n \in from..to : n \in active

\* C20: calculateLongestStreak returns absent for no commits and otherwise
\* the length, first and last date of the longest run of consecutive
\* calendar dates that each have a commit, the earliest such run on a tie
\* (so {1, d, d} when all commits fall on one date d); two dates that are
\* adjacent calendar days always extend the run.
C20_LongestStreak ==
    (stats.pc = "returned")
    => LET active == ActiveDays(stats.commits)
           streak == stats.streak
           from == DayNumber(streak.startDate)
           to == DayNumber(streak.endDate)
       IN /\ streak.isNull <=> Len(stats.commits) = 0
          /\ ~streak.isNull =>
                /\ streak.days = to - from + 1
                /\ IsRun(active, from, to)
                /\ \A a \in active, b \in active :
                      (a <= b /\ IsRun(active, a, b))
                      => (b - a + 1 < streak.days
                          \/ (b - a + 1 = streak.days /\ from <= a))

\* C21: getCommitsByDayOfWeek returns exactly seven entries, Monday to
\* Sunday in that order, each with the number of commits of that weekday,
\* for every commit list; for the empty list all seven counts are zero.
C21_SevenWeekdays ==
    (stats.pc = "returned")
    => /\ Len(stats.byWeekday) = 7
       /\ \A k \in 1..7 :
             /\ stats.byWeekday[k].day = orderedDays[k]
             /\ stats.byWeekday[k].count =
                   Cardinality({i \in 1..Len(stats.commits) :
                       ((DayNumber(DateKey(stats.commits[i])) + 6) % 7) + 1 = k})

\* The number of commits of a repository in the list handed to the statistics.
TrueCount(repo) ==
    Cardinality({i \in 1..Len(stats.commits) : stats.commits[i].repo = repo})

\* The position at which a repository first appears in the commit list.
FirstIndex(repo) ==
    CHOOSE i \in 1..Len(stats.commits) :
        /\ stats.commits[i].repo = repo
        /\ \A j \in 1..(i - 1) : stats.commits[j].repo # repo

\* C22: getTopRepositories(commits, N) returns at most N entries, one per
\* repository, each with the repository's true commit count, in order of
\* non-increasing count; no repository left out has more commits than one
\* returned, no more repositories are left out than N forces, and
\* repositories of equal count are ordered, and preferred, by first
\* appearance in the commit list.
C22_TopRepositories ==
    (stats.pc = "returned")
    => LET top == stats.topRepos
           all == {stats.commits[i].repo : i \in 1..Len(stats.commits)}
           shown == {top[k].repo : k \in 1..Len(top)}
       IN /\ Len(top) = Min(stats.limit, Cardinality(all))
          /\ Cardinality(shown) = Len(top)
          /\ shown \subseteq all
          /\ \A k \in 1..Len(top) : top[k].count = TrueCount(top[k].repo)
          /\ \A k \in 1..(Len(top) - 1) :
                \/ top[k].count > top[k + 1].count
                \/ /\ top[k].count = top[k + 1].count
                   /\ FirstIndex(top[k].repo) < FirstIndex(top[k + 1].repo)
          /\ \A r \in all \ shown : \A k \in 1..Len(top) :
                \/ TrueCount(r) < top[k].count
                \/ /\ TrueCount(r) = top[k].count
                   /\ FirstIndex(top[k].repo) < FirstIndex(r)

\* Commits of repositories 2, 1, 3, 3 with limit 2: repository 3 with two
\* commits, then repository 2, which appears before repository 1.
C22_Witness ==
    /\ stats.pc = "returned"
    /\ stats.limit = 2
    /\ [k \in 1..Len(stats.commits) |-> stats.commits[k].repo] = <<2, 1, 3, 3>>
    /\ stats.topRepos = <<[repo |-> 3, count |-> 2, percentage |-> 500],
                          [repo |-> 2, count |-> 1, percentage |-> 250]>>

\* The permutations of the positions of a list of n elements.
PositionOrders(n) ==
    {p \in [1..n -> 1..n] : \A i, j \in 1..n : p[i] = p[j] => i = j}

\* The list in the order given by a permutation of its positions.
Shuffle(commits, p) == [k \in 1..Len(commits) |-> commits[p[k]]]

\* The entries of a list as a set.
EntrySet(seq) == {seq[k] : k \in 1..Len(seq)}

\* C23: the statistics do not depend on the order of the commits: for the
\* commit list of a call and every permutation of it, the total count, the
\* per-weekday counts, the longest streak (length, start and end) and the
\* per-repository counts are the same.
C23_OrderIndependent ==
    (stats.pc = "returned")
    => \A p \in PositionOrders(Len(stats.commits)) :
         LET shuffled == Shuffle(stats.commits, p)
         IN /\ calculateTotalCommits(shuffled) = stats.total
            /\ getCommitsByDayOfWeek(shuffled) = stats.byWeekday
            /\ calculateLongestStreak(shuffled, stats.tz) = stats.streak
            /\ EntrySet(getTopRepositories(shuffled, stats.limit)) = EntrySet(stats.topRepos)

\* Commits of January 3, 1 and 2, of two repositories, give the streak
\* January 1 to 3 although none is authored after the one before it.
C23_Witness ==
    /\ stats.pc = "returned"
    /\ [k \in 1..Len(stats.commits) |-> DateKey(stats.commits[k])]
           = <<(<<1, 3>>), (<<1, 1>>), (<<1, 2>>)>>
    /\ [k \in 1..Len(stats.commits) |-> stats.commits[k].repo] = <<2, 1, 2>>
    /\ stats.streak = [isNull |-> FALSE, days |-> 3,
                       startDate |-> <<1, 1>>, endDate |-> <<1, 3>>]
    /\ EntrySet(stats.topRepos) = {[repo |-> 2, count |-> 2, percentage |-> 667],
                                [repo |-> 1, count |-> 1, percentage |-> 333]}

\* The whitespace-delimited words of the messages handed to the analyzer.
RawWords ==
    Flatten([k \in 1..Len(analyzer.commits) |->
                SelectSeq(splitWhitespace(analyzer.commits[k].message),
                          LAMBDA word : Len(word) > 0)])

\* The tokens of the whitespace-delimited words that do not have the shape
\* of a version number.
TokensOutsideVersions ==
    LET kept == SelectSeq(RawWords, LAMBDA word : ~isVersionNumber(toLowerCase(word)))
    IN Flatten([k \in 1..Len(kept) |-> extractWords(kept[k])])

\* C24: in getTopWords every counted word is no stopword, has at least 3
\* characters, and is counted once for each of its occurrences outside the
\* whitespace-delimited words of version-number shape: such a word
\* contributes no token to the counts.
C24_VersionWordsUncounted ==
    (analyzer.pc = "returned")
    => \A k \in 1..Len(analyzer.topWords) :
         LET entry == analyzer.topWords[k]
         IN /\ entry.word \notin STOPWORDS
            /\ Len(entry.word) >= 3
            /\ entry.count = CountOf(TokensOutsideVersions, entry.word)

\* The first token of each message that is no stopword and has at least 3
\* characters, for the messages that have one.
FirstSurvivors ==
    LET survivors(message) ==
            SelectSeq(extractWords(message),
                      LAMBDA word : word \notin STOPWORDS /\ Len(word) >= 3)
        counted == SelectSeq(analyzer.commits,
                             LAMBDA commit : survivors(commit.message) # <<>>)
    IN [k \in 1..Len(counted) |-> survivors(counted[k].message)[1]]

\* C25: in getCommitMessageStats every message with a token surviving the
\* stopword and length filter counts once, for its first surviving token,
\* and topFirstWords holds the five most frequent of these tokens with
\* their counts.
C25_FirstSurvivingToken ==
    (analyzer.pc = "returned")
    => LET top == analyzer.messageStats.topFirstWords
           words == {FirstSurvivors[k] : k \in 1..Len(FirstSurvivors)}
       IN /\ Len(top) = Min(5, Cardinality(words))
          /\ \A k \in 1..Len(top) :
                /\ top[k].word \in words
                /\ top[k].count = CountOf(FirstSurvivors, top[k].word)
                /\ \A j \in 1..Len(top) : top[j].word = top[k].word => j = k
                /\ \A word \in words \ {top[j].word : j \in 1..Len(top)} :
                      CountOf(FirstSurvivors, word) <= top[k].count

\* C26: for an empty commit list the Message Analyzer returns without
\* raising: getTopWords an empty list, getCommitMessageStats an average
\* length of 0 and an empty list of top first words.
C26_EmptyListNoError ==
    (analyzer.pc # "call" /\ analyzer.pc # "idle" /\ analyzer.commits = <<>>)
    => /\ analyzer.pc = "returned"
       /\ analyzer.topWords = <<>>
       /\ analyzer.messageStats.avgLength = 0
       /\ analyzer.messageStats.topFirstWords = <<>>

\* The analyzer has returned for the empty commit list.
C26_Witness ==
    /\ analyzer.pc = "returned"
    /\ analyzer.commits = <<>>
    /\ analyzer.messageStats.shortestMsg = NULL

\* C28: a run with noCache set skips the cache entirely: it does not consult
\* a cache entry and it writes none, so once it has ended the cache
\* directory is what it was when the run started.
C28_NoCacheSkipsCache ==
    (run.pc = "done" /\ run.options.noCache)
    => /\ ~run.cacheCheck.consulted
       /\ run.cacheWrites = 0
       /\ files = run.files0

\* The listing of the account without visibility filter and exclusions.
UnfilteredRepos == fetchAllRepos(account, FALSE, <<>>, 200).value

\* C27: with --repo the flags --public-only and --exclude are ignored: the
\* repository is resolved as it would be without them, so a private or
\* excluded repository that --repo names is found, and it is collected
\* without filters.
C27_RepoIgnoresFilters ==
    (main.cli.repo # NULL /\ main.resolved)
    => /\ main.found = findRepository(UnfilteredRepos, main.cli.repo)
       /\ main.pc \in {"collect", "stats"}
          => /\ run.options.repoList = [given |-> TRUE, list |-> <<main.found.match>>]
             /\ ~run.options.publicOnly
             /\ run.options.excludeRepos = <<>>

\* C29: the repository list main uses for the statistics is the one of the
\* collect run that gave the commits: the run's own listing for a fresh
\* run, the entry's repos for a run answered from the cache, and a run
\* answered from the cache costs no repository-listing request.
C29_ReposOfSameRun ==
    (main.pc = "stats" /\ main.cli.repo = NULL)
    => IF run.cacheCheck.valid /\ run.listerCalls = 0
       THEN /\ main.repos = run.files0[CachePathOf(run.options)].repos
            /\ main.listerCalls = 0
       ELSE main.repos = run.repos

\* C30: the cache is keyed by principal and year only: a run, under whatever
\* filters, that finds the entry an earlier invocation wrote under its own
\* filters returns that entry's commits unmodified, without listing or
\* fetching, also where its filters would exclude their repositories.
C30_CacheIgnoresFilters ==
    (/\ main.earlier # <<>>
     /\ run.pc = "done"
     /\ run.prevWrite.at # 0
     /\ EntryValid(run.files0, run.options, run.startedAt))
    => /\ run.cacheCheck.consulted
       /\ run.listerCalls = 0
       /\ run.fetchCalls = 0
       /\ run.outcome.kind = "returned"
       /\ run.outcome.commits = run.prevWrite.commits
       /\ run.outcome.commits = run.files0[CachePathOf(run.options)].commits

\* An invocation without filters cached the commits of repositories 1 and 2;
\* the next one, with --public-only and --exclude 1, returned the same
\* commits, although repository 2 is private and repository 1 excluded.
C30_Witness ==
    /\ main.earlier = <<[NoCli EXCEPT !.publicOnly = FALSE, !.exclude = <<>>]>>
    /\ main.cli = [NoCli EXCEPT !.publicOnly = TRUE, !.exclude = <<1>>]
    /\ run.pc = "done"
    /\ Len(account) = 2
    /\ fetchAllRepos(account, TRUE, <<1>>, 200).value = <<>>
    /\ run.outcome.commits = SimplifiedCommits(1) \o SimplifiedCommits(2)
    /\ Len(run.outcome.commits) = 3
    /\ main.commits = <<>>

\* C31: for a positive batch size B (5 when the option is absent) the loop
\* partitions the N repositories into ceil(N/B) consecutive batches: all but
\* the last hold exactly B, the last between 1 and B, every repository is
\* in exactly one batch, and the batches concatenated in order are the
\* list; the run's Batches computes the same.
C31_ConsecutiveBatches ==
    (partition.pc = "done" /\ partition.batchSize >= 0)
    => LET B == BATCH_SIZE(partition)
           N == Len(partition.repos)
           batches == partition.batches
       IN /\ Len(batches) = (N + B - 1) \div B
          /\ \A k \in 1..(Len(batches) - 1) : Len(batches[k]) = B
          /\ Len(batches[Len(batches)]) \in 1..B
          /\ \A r \in 1..N :
                Cardinality({<<k, j>> \in (1..Len(batches)) \X (1..B) :
                                /\ j <= Len(batches[k])
                                /\ batches[k][j] = partition.repos[r]}) = 1
          /\ Flatten(batches) = partition.repos
          /\ batches = Batches(partition.repos, B)

\* Seven repositories in batches of 3 end as batches of 3, 3 and 1.
C31_Witness ==
    /\ partition.pc = "done"
    /\ partition.batchSize = 3
    /\ Len(partition.repos) = 7
    /\ [k \in 1..Len(partition.batches) |-> Len(partition.batches[k])] = <<3, 3, 1>>

\* C37: the batch partitioning loop ends for every batchSize option: an
\* absent or zero option falls back to 5, and after k iterations the loop
\* counter has advanced by at least k, so that i < repos.length fails within
\* repos.length iterations.
C37_PartitionLoopEnds ==
    /\ (partition.batchSize = 0 => BATCH_SIZE(partition) = DefaultBatchSize)
    /\ (partition.pc # "idle" => partition.i >= Len(partition.batches))

\* C38: clearCache(principal) with no year leaves every cache entry of
\* every other principal as it was.
C38_OtherPrincipalsKept ==
    (store.pc = "cleared" /\ store.username # NULL /\ store.year = 0)
    => \A other \in Principals \ {store.username} : \A year \in Years :
         LET cachePath == getCachePath(other, year)
         IN cachePath \in DOMAIN store.before
            => /\ cachePath \in DOMAIN files
               /\ files[cachePath] = store.before[cachePath]

\* C32: in a fresh run the resolved repository set is the explicit list
\* when one is given (the Repository Lister is not called) and the Lister's
\* filtered output otherwise; the fetches issued so far are for a prefix of
\* that set, one per repository, and a run that returns has issued exactly
\* one fetch for every repository of the set, failed ones included.
C32_EachRepoFetchedOnce ==
    LET names == [k \in 1..Len(run.repos) |-> run.repos[k].full_name]
        given == run.options.repoList.given
        fresh == run.listerCalls > 0 \/ given
    IN /\ Len(run.fetched) <= Len(names)
       /\ run.fetched = SubSeq(names, 1, Len(run.fetched))
       /\ \A a, b \in 1..Len(run.fetched) : run.fetched[a] = run.fetched[b] => a = b
       /\ run.fetchCalls = Len(run.fetched)
       /\ (fresh /\ run.pc \notin {"idle", "listing"} /\ run.listerError = "none")
            => /\ run.repos = IF given THEN run.options.repoList.list
                              ELSE fetchAllRepos(account, run.options.publicOnly,
                                                 run.options.excludeRepos, 200).value
               /\ run.listerCalls = IF given THEN 0 ELSE 1
       /\ (fresh /\ run.outcome.kind = "returned") => run.fetched = names

\* A listed run of two batches returns after the fetch of a repository of
\* its first batch failed.
C32_Witness ==
    /\ run.outcome.kind = "returned"
    /\ run.listerCalls = 1
    /\ Len(run.batches) >= 2
    /\ run.repos[1].full_name \in run.failed
    /\ Len(run.fetched) = Len(run.repos)

\* C34: every failed fetch of a repository that ends as an empty
\* contribution, in fetchCommitsForRepo or in the collector's catch, has
\* produced a warning.
C34_AbsorbedFailureWarns ==
    (fetcher.pc = "settled" /\ fetcher.status # 200)
    => LET settled == CatchFetch(fetcher.result)
       IN (~settled.threw /\ settled.value = <<>>) => settled.warned

\* C33: during a run 0 <= processedCount <= totalCount; processedCount is
\* the number of repositories of the completed batches and the running
\* commit total the number of commits merged from them; a run that returns
\* normally ends with processedCount = totalCount and the running total
\* equal to the length of the returned list.  From step to step of a run
\* processedCount never decreases, and it and the running total change only
\* when the await of a complete batch resumes.
C33_ProgressState ==
    /\ [](LET state == run.state
              completed == SubSeq(run.repos, 1, state.processedCount)
          IN /\ 0 <= state.processedCount
             /\ state.processedCount <= state.totalCount
             /\ (run.pc # "idle" /\ run.repos # <<>>) =>
                   /\ state.totalCount = Len(run.repos)
                   /\ state.processedCount
                        = Min(IF run.pc = "await" THEN run.batchIndex * BATCH_SIZE(run.options)
                              ELSE Len(run.repos),
                              Len(run.repos))
                   /\ state.allCommits = Len(ExpectedCommits(completed, run.failed))
                   /\ state.allCommits = Len(run.allCommitsArray)
             /\ (run.outcome.kind = "returned" /\ run.repos # <<>>) =>
                   /\ state.processedCount = state.totalCount
                   /\ state.allCommits = Len(run.outcome.commits))
    /\ [][(run.pc # "idle" /\ run'.pc # "idle") =>
            /\ run'.state.processedCount >= run.state.processedCount
            /\ (run'.state.processedCount # run.state.processedCount
                \/ run'.state.allCommits # run.state.allCommits)
               => /\ run.pc = "await"
                  /\ PromiseAll(run.promises) = "fulfilled"]_vars

\* The second of three batches has completed: 6 of 7 repositories are
\* processed, one of them failed, and the running total counts the commits
\* of the others.
C33_Witness ==
    /\ run.pc = "await"
    /\ run.batchIndex = 2
    /\ run.state.processedCount = 6
    /\ run.state.totalCount = 7
    /\ Cardinality(run.failed) = 1
    /\ run.state.allCommits > 0

\* C35: whatever the order in which the fetches of a batch settle, a fresh
\* run returns the per-repository results concatenated in the order of the
\* repository list.
C35_CompletionOrderIrrelevant ==
    (run.outcome.kind = "returned" /\ run.fetchCalls > 0)
    => run.outcome.commits
         = Flatten([k \in 1..Len(run.repos) |->
                      IF run.repos[k].full_name \in run.failed THEN <<>>
                      ELSE fetchCommitsForRepo(run.repos[k].full_name, 200).value])

\* A run returns the commits of several repositories after a fetch settled
\* before the fetch of an earlier repository of its batch.
C35_Witness ==
    /\ run.outcome.kind = "returned"
    /\ run.outOfOrder
    /\ Len(run.repos) >= 2
    /\ run.failed = {}
    /\ Len(run.outcome.commits) >= 2

\* C36: when the entry that passed the validity check is missing or does
\* not parse at the time of the load, the run goes on as a fresh run: it
\* lists the repositories, fails only if that listing fails, and returns
\* what the fetches of the listed repositories gave, not the entry's commits.
C36_LoadRaceFallsThrough ==
    LET cachePath == CachePathOf(run.options)
        listed == fetchAllRepos(account, run.options.publicOnly,
                                run.options.excludeRepos, 200).value
    IN (/\ run.pc \notin {"idle", "load"}
        /\ run.cacheCheck.valid
        /\ ~(cachePath \in DOMAIN run.filesAtLoad
             /\ run.filesAtLoad[cachePath].kind = "json"))
       => /\ run.listerCalls = 1
          /\ run.outcome.kind = "threw" => run.listerError # "none"
          /\ run.outcome.kind = "returned"
               => /\ run.repos = listed
                  /\ run.outcome.commits = ExpectedCommits(listed, run.failed)

\* The entry was valid at the check and unparseable at the load; the run
\* returned the commits of the two repositories it listed.
C36_Witness ==
    /\ run.outcome.kind = "returned"
    /\ run.cacheCheck.valid
    /\ CachePathOf(run.options) \in DOMAIN run.filesAtLoad
    /\ run.filesAtLoad[CachePathOf(run.options)].kind = "corrupt"
    /\ Len(run.repos) = 2
    /\ run.failed = {}
    /\ Len(run.outcome.commits) = 3

\* C39: under any interleaving of timer ticks and Enter/Space key presses
\* the screen index stays within 0..7, and each tick or key press leaves it
\* or advances it by one, never moving it once it is 7.
C39_ScreenIndex ==
    /\ [](screen.currentScreen \in 0..(totalScreens - 1))
    /\ [][(screen.pc = "mounted" /\ screen'.pc = "mounted") =>
            /\ screen'.currentScreen >= screen.currentScreen
            /\ screen'.currentScreen <= screen.currentScreen + 1
            /\ (screen.currentScreen = totalScreens - 1
                  => screen'.currentScreen = totalScreens - 1)]_vars

====
